---- MODULE Spec2Model ----
(***************************************************************************)
(* Model of the f1-news-bot pipeline: the Publication Scheduler            *)
(* (src/src/moderator/publication_scheduler.py), the ingestion process's   *)
(* background handlers (src/src/main.py, src/src/ai/content_processor.py,  *)
(* src/src/collectors/news_collector.py), the persistence flags            *)
(* (src/src/database.py), the Redis moderation queue                       *)
(* (src/src/services/redis_service.py) and the publisher process           *)
(* (src/src/telegram_bot/bot.py).                                          *)
(*                                                                         *)
(* Specifications: SpecSched drives the scheduler's queue operations,      *)
(* SpecDrain the drain against the rate limiter, SpecIngest the ingestion  *)
(* process (processing, moderation, publication loop), SpecCancel the same *)
(* with remove_from_queue, SpecRedis the Redis list operations,            *)
(* SpecRemoval pushes and removals only, SpecPublisher the publisher       *)
(* process next to two processing tasks, SpecCoupling both processes on    *)
(* the Redis list, SpecCollect the collectors of one collection round,     *)
(* SpecBatch one processing task with failing items, SpecPoll polls of a   *)
(* list with entries that do not deserialize, SpecTtl the expiry of the    *)
(* list's key, SpecLoops, SpecLoopsFair and SpecShutdown the polling loop  *)
(* tasks, SpecModerate one call of ContentModerator.moderate_news_item     *)
(* (src/src/moderator/content_moderator.py) and SpecScore one call of      *)
(* BaseCollector.calculate_relevance_score                                 *)
(* (src/src/collectors/base_collector.py), SpecDedup one call of           *)
(* NewsCollector._remove_duplicates, SpecIngestLoops the ingestion process *)
(* with its own loops only, SpecEnrich the processing loop with the        *)
(* importance levels a language model can answer, SpecSync the publisher's *)
(* sync loop on a list longer than its poll, SpecTable the processing loop *)
(* on a table longer than its batch, and SpecScan removals from a list     *)
(* with entries that do not deserialize.                                   *)
(*                                                                         *)
(* Time is counted in units of 30 minutes: datetime.utcnow() is the        *)
(* variable now, timedelta(minutes=30) is 1, timedelta(hours=1) is 2 and   *)
(* timedelta(hours=2) is 4.                                                *)
(***************************************************************************)
EXTENDS Integers, Sequences, FiniteSets, TLC

\* ---------------------------------------------------------------- bounds
\* last clock value the model explores
MaxTime == 2
\* number of add_to_queue calls explored in one behaviour
MaxAdds == 2
\* settings.max_posts_per_hour (config.py:79, default 5, set from the
\* environment); the model explores a small ceiling
MaxPostsPerHour == 2
\* number of mark_as_published calls explored in one behaviour
MaxMarks == MaxPostsPerHour + 1
\* number of pushes to the Redis list explored in one behaviour
MaxPushes == 3
\* number of messages the admin's publishes deliver in one behaviour
MaxSends == 2
\* longest list one collector returns from collect_news
MaxBatch == 2

\* how far the clock of the Redis server runs
MaxRedisTime == 3

\* ------------------------------------------------------ program constants
HalfHour == 1
Hour == 2
TwoHours == 4
HighPriority == 5
MediumPriority == 3

\* settings.min_relevance_score, in tenths
min_relevance_score == 7
\* limit of process_pending_news
ProcessLimit == 10
\* limit passed to get_news_for_publication by _moderate_news_background
ModerateLimit == 10

\* news item identities
Items == {1, 2}
\* the rows of a table with one more unprocessed item than a batch of
\* process_pending_news takes
TableRows == 1..(ProcessLimit + 1)
\* relevance_score of the collected items, in tenths
relevance_score ==
    [i \in TableRows |-> IF i \in Items THEN 10 - i ELSE min_relevance_score]
\* importance levels the enrichment assigns
Importances == {MediumPriority, HighPriority}
\* items whose text passes the rules of moderate_news_item
Acceptable == {1}
\* number of add_to_queue calls explored in a behaviour of the ingestion process
MaxEnqueues == MaxPostsPerHour + 1
\* priorities handed to add_to_queue: the importance levels 1..5 and one above
Priorities == 1..6

\* NewsCollector.collectors, in the order of the dict
Collectors == <<"rss", "telegram", "reddit">>
CollectorNames == {Collectors[k] : k \in 1..Len(Collectors)}
\* the items the sources can deliver: url and the words of title.lower();
\* the two titles share 5 of their 6 words (similarity 5/6)
FetchedItems ==
    {[url |-> 1, title |-> {1, 2, 3, 4, 5}],
     [url |-> 2, title |-> {1, 2, 3, 4, 5, 6}]}

\* expire(key, 86400): 24 hours, in units of 12 hours
QueueTtl == 2

\* a key without a time to live
NoExpiry == -1

\* the polling loops: four tasks of the ingestion process (main.py:272-275)
\* and the sync loop of the publisher process (bot.py:102)
Processes == {"ingestion", "publisher"}
IngestionLoops == {"collection", "processing", "publication", "monitoring"}
PublisherLoops == {"redis_sync"}
Loops == IngestionLoops \cup PublisherLoops

VARIABLES
    now,                \* datetime.utcnow()
    publication_queue,  \* PublicationScheduler.publication_queue
    post_history,       \* PublicationScheduler.post_history
    nextSeq,            \* history: number of the next add_to_queue call
    marks,              \* history: time of every mark_as_published call
    op,                 \* history: name of the last call on the scheduler or the Redis list
    ret,                \* history: what that call returned
    db,                 \* NewsItemDB rows: processed, published, importance_level
    moderation_queue,   \* Redis list f1_news:moderation_queue, head first
    published_news,     \* Redis list f1_news:published, head first
    pending_news,       \* process_news_batch: items of the batch still to process
    ready_items,        \* _schedule_publication_background: items still to send
    channel,            \* history: messages delivered to the Telegram channel
    released,           \* history: how often the scheduler released each item
    removed,            \* history: items taken out by remove_from_queue
    moderated,          \* history: last verdict of moderate_news_item per item
    pushSeq,            \* history: number of the next push to the Redis list
    pushed,             \* history: items a push has put on the Redis list
    enriched,           \* history: number of update_processed_news calls per item
    api_pending_news,   \* process_news_batch of the task started by POST /api/process-news
    pending_publications, \* F1NewsBot.pending_publications of the publisher process
    rejected,           \* history: items the admin rejected
    source_state,       \* _collect_from_source per collector: "idle", "saving" or "returned"
    news_items,         \* _collect_from_source: the list collect_news returned
    unsaved,            \* _collect_from_source: items the save loop has not reached
    store,              \* rows of the table news_items: url and title
    saved_now,          \* history: rows saved during the current collect_all_news
    all_news,           \* collect_all_news: the merged results
    unique_news,        \* collect_all_news: what _remove_duplicates returned
    loop_state,         \* per polling loop task: "ready", "sleeping", "retry_sleep", "cancelled" or "terminated"
    loop_last,          \* history: how the last iteration of each loop ended
    loop_sleep,         \* history: seconds of the last asyncio.sleep each loop started
    process,            \* per process: "running" or "exited"
    redis_connection,   \* per process: redis_service.redis_client, "open" or "closed"
    redis_clock,        \* the clock of the Redis server, in units of 12 hours
    queue_expires_at,   \* when the key f1_news:moderation_queue expires, or NoExpiry
    pushed_at,          \* history: redis_clock at the push of the entry with seq k
    mod_item,           \* moderate_news_item: the argument news_item
    mod_fault,          \* moderate_news_item: the rule whose evaluation raises, or "none"
    verdict,            \* moderate_news_item: <<moderation_result>> once it has returned
    score_item,         \* calculate_relevance_score: the arguments title and content
    score               \* calculate_relevance_score: <<final_score>> once it has returned

schedVars == <<publication_queue, post_history, nextSeq, marks>>

ingestVars == <<db, moderation_queue, published_news, pending_news, ready_items,
                channel, released, removed, moderated, pushSeq>>

\* state of the publisher process, of the collectors and of the second
\* processing task, with the histories kept for them
botVars == <<pending_publications, rejected>>

collVars == <<source_state, news_items, unsaved, store, saved_now, all_news, unique_news>>

\* the polling loop tasks of both processes
loopVars == <<loop_state, loop_last, loop_sleep>>

sysVars == <<loopVars, process, redis_connection>>

\* the expiry of the moderation queue's key
ttlVars == <<redis_clock, queue_expires_at, pushed_at>>

\* arguments and results of the functions that are checked on their own
pureVars == <<mod_item, mod_fault, verdict, score_item, score>>

\* everything but the loop tasks and the processes
appVars == <<now, schedVars, op, ret, ingestVars, pushed, enriched, api_pending_news,
             botVars, collVars, ttlVars, pureVars>>

extVars == <<pushed, enriched, api_pending_news, botVars, collVars, sysVars, ttlVars,
             pureVars>>

vars == <<now, schedVars, op, ret, ingestVars, extVars>>

\* ------------------------------------------------------------- helpers
RemoveAt(s, i) == SubSeq(s, 1, i - 1) \o SubSeq(s, i + 1, Len(s))

InsertAt(s, i, e) == SubSeq(s, 1, i - 1) \o <<e>> \o SubSeq(s, i, Len(s))

\* Python dict equality of two queue entries (seq is history, not a field)
SameEntry(a, b) ==
    /\ a.id = b.id
    /\ a.priority = b.priority
    /\ a.added_at = b.added_at
    /\ a.scheduled_for = b.scheduled_for

\* list.remove(item): drop the first element equal to item
ListRemove(s, item) ==
    LET hits == {k \in 1..Len(s) : SameEntry(s[k], item)}
    IN IF hits = {} THEN s
       ELSE RemoveAt(s, CHOOSE k \in hits : \A j \in hits : k <= j)

\* ------------------------------------------------- PublicationScheduler
\* variant: a timestamp exactly one hour old is kept in the window
PruneHistory_KeepsHourOld(hist, t) == SelectSeq(hist, LAMBDA p : t - p <= Hour)

\* can_publish_now, lines 28-31: the pruned post_history
PruneHistory(hist, t) == SelectSeq(hist, LAMBDA p : t - p < Hour)

\* variant: the limit itself still counts as under the limit
can_publish_now_AtLimit(hist, t) == Len(PruneHistory(hist, t)) <= MaxPostsPerHour

\* can_publish_now, line 34: the returned flag
can_publish_now(hist, t) == Len(PruneHistory(hist, t)) < MaxPostsPerHour

\* variant: priority 5 is scheduled like a medium priority
_calculate_schedule_time_Above(t, priority) ==
    IF priority > HighPriority THEN t
    ELSE IF priority >= MediumPriority THEN t + HalfHour
    ELSE t + TwoHours

_calculate_schedule_time(t, priority) ==
    IF priority >= HighPriority THEN t
    ELSE IF priority >= MediumPriority THEN t + HalfHour
    ELSE t + TwoHours

\* variant: the new entry also goes in front of an entry of equal priority
GoesBefore_Equal(item, queue_item) ==
    \/ item.priority <= queue_item.priority
    \/ /\ item.priority = queue_item.priority
       /\ item.scheduled_for > queue_item.scheduled_for

\* add_to_queue, lines 61-63: does the new entry go in front of item
GoesBefore(item, queue_item) ==
    \/ item.priority < queue_item.priority
    \/ /\ item.priority = queue_item.priority
       /\ item.scheduled_for > queue_item.scheduled_for

\* add_to_queue, lines 52-69
add_to_queue(queue, id, priority, t, seq) ==
    LET queue_item == [id |-> id, priority |-> priority, added_at |-> t,
                       scheduled_for |-> _calculate_schedule_time(t, priority),
                       seq |-> seq]
        hits == {i \in 1..Len(queue) : GoesBefore(queue[i], queue_item)}
    IN IF hits = {} THEN Append(queue, queue_item)
       ELSE InsertAt(queue, CHOOSE i \in hits : \A j \in hits : i <= j, queue_item)

\* get_ready_for_publication, lines 95-98: the loop over the copy of the queue
RECURSIVE DrainLoop(_, _, _, _)
DrainLoop(snapshot, k, st, t) ==
    IF k > Len(snapshot) THEN st
    ELSE LET item == snapshot[k]
         IN IF item.scheduled_for <= t
            THEN LET pruned == PruneHistory(st.post_history, t)
                 IN IF can_publish_now(st.post_history, t)
                    THEN DrainLoop(snapshot, k + 1,
                             [publication_queue |-> ListRemove(st.publication_queue, item),
                              post_history |-> pruned,
                              ready_items |-> Append(st.ready_items, item.id)], t)
                    ELSE DrainLoop(snapshot, k + 1,
                             [st EXCEPT !.post_history = pruned], t)
            ELSE DrainLoop(snapshot, k + 1, st, t)

\* a drain that gives every entry it leaves behind a new scheduled_for
get_ready_for_publication_Reschedules(queue, hist, t) ==
    LET st == DrainLoop(queue, 1,
                  [publication_queue |-> queue, post_history |-> hist,
                   ready_items |-> <<>>], t)
        left == st.publication_queue
    IN [st EXCEPT !.publication_queue =
                      [k \in 1..Len(left) |->
                          [left[k] EXCEPT !.scheduled_for = t + HalfHour]]]

\* get_ready_for_publication, lines 89-100
get_ready_for_publication(queue, hist, t) ==
    DrainLoop(queue, 1,
              [publication_queue |-> queue, post_history |-> hist, ready_items |-> <<>>], t)

\* remove_from_queue, lines 141-146
remove_from_queue(queue, id) ==
    LET hits == {i \in 1..Len(queue) : queue[i].id = id}
    IN IF hits = {} THEN queue
       ELSE RemoveAt(queue, CHOOSE i \in hits : \A j \in hits : i <= j)

\* ---------------------------------------------------- scheduler actions
AddToQueue(id, priority) ==
    /\ nextSeq <= MaxAdds
    /\ publication_queue' = add_to_queue(publication_queue, id, priority, now, nextSeq)
    /\ nextSeq' = nextSeq + 1
    /\ op' = "add_to_queue"
    /\ ret' = TRUE
    /\ UNCHANGED <<now, post_history, marks, ingestVars,
                   extVars>>

RemoveFromQueue(id) ==
    LET found == \E i \in 1..Len(publication_queue) : publication_queue[i].id = id
    IN /\ publication_queue' = remove_from_queue(publication_queue, id)
       /\ op' = "remove_from_queue"
       /\ ret' = found
       /\ removed' = IF found THEN removed \cup {id} ELSE removed
       /\ UNCHANGED <<now, post_history, nextSeq, marks, db, moderation_queue,
                      published_news, pending_news, ready_items, channel,
                      released, moderated, pushSeq,
                   extVars>>

ClearQueue ==
    /\ publication_queue' = <<>>
    /\ op' = "clear_queue"
    /\ ret' = TRUE
    /\ UNCHANGED <<now, post_history, nextSeq, marks, ingestVars,
                   extVars>>

GetReadyForPublication ==
    LET st == get_ready_for_publication(publication_queue, post_history, now)
    IN /\ publication_queue' = st.publication_queue
       /\ post_history' = st.post_history
       /\ op' = "get_ready_for_publication"
       /\ ret' = st.ready_items
       /\ UNCHANGED <<now, nextSeq, marks, ingestVars,
                   extVars>>

\* mark_as_published, line 126
MarkAsPublished ==
    /\ Len(marks) < MaxMarks
    /\ post_history' = Append(post_history, now)
    /\ marks' = Append(marks, now)
    /\ op' = "mark_as_published"
    /\ ret' = TRUE
    /\ UNCHANGED <<now, publication_queue, nextSeq, ingestVars,
                   extVars>>

CanPublishNow ==
    /\ post_history' = PruneHistory(post_history, now)
    /\ op' = "can_publish_now"
    /\ ret' = can_publish_now(post_history, now)
    /\ UNCHANGED <<now, publication_queue, nextSeq, marks, ingestVars,
                   extVars>>

\* the clock advances between two calls
Tick ==
    /\ now < MaxTime
    /\ now' = now + 1
    /\ op' = "tick"
    /\ ret' = TRUE
    /\ UNCHANGED <<publication_queue, post_history, nextSeq, marks, ingestVars,
                   extVars>>

\* the state after construction: PublicationScheduler.__init__, lines 18-21,
\* F1NewsBot.__init__, a table with the rows d, the moderation queue with
\* the entries of list (pushed at time 0) and collect_all_news with the
\* merged results of its collectors
InitFrom(d, list, merged) ==
    /\ now = 0
    /\ publication_queue = <<>>
    /\ post_history = <<>>
    /\ nextSeq = 1
    /\ marks = <<>>
    /\ op = "init"
    /\ ret = TRUE
    /\ db = d
    /\ moderation_queue = list
    /\ published_news = <<>>
    /\ pending_news = <<>>
    /\ ready_items = <<>>
    /\ channel = <<>>
    /\ released = [i \in DOMAIN d |-> 0]
    /\ removed = {}
    /\ moderated = [i \in DOMAIN d |-> "none"]
    /\ pushSeq = Len(list) + 1
    /\ pushed = {list[k].id : k \in 1..Len(list)}
    /\ enriched = [i \in DOMAIN d |-> IF d[i].processed THEN 1 ELSE 0]
    /\ api_pending_news = <<>>
    /\ pending_publications = <<>>
    /\ rejected = {}
    /\ source_state = [c \in CollectorNames |-> "idle"]
    /\ news_items = [c \in CollectorNames |-> <<>>]
    /\ unsaved = [c \in CollectorNames |-> <<>>]
    /\ store = <<>>
    /\ saved_now = {}
    /\ all_news = merged
    /\ unique_news = <<>>
    /\ loop_state = [l \in Loops |-> "ready"]
    /\ loop_last = [l \in Loops |-> "none"]
    /\ loop_sleep = [l \in Loops |-> 0]
    /\ process = [p \in Processes |-> "running"]
    /\ redis_connection = [p \in Processes |-> "open"]
    /\ redis_clock = 0
    /\ queue_expires_at = IF list = <<>> THEN NoExpiry ELSE QueueTtl
    /\ pushed_at = IF list = <<>> THEN <<>> ELSE [k \in 1..Len(list) |-> 0]

\* save_news_item, database.py lines 121-141: rows as the collectors save them
Unprocessed(ids) ==
    [i \in ids |-> [processed |-> FALSE, published |-> FALSE, importance_level |-> 0]]

\* the empty Redis lists and a table whose rows are all unprocessed
InitProgram == InitFrom(Unprocessed(Items), <<>>, <<>>)

\* the argument of a function that has not been called
NoItem == [title |-> <<>>]

\* no call of moderate_news_item or calculate_relevance_score is under way
NoCalls ==
    /\ mod_item = NoItem
    /\ mod_fault = "none"
    /\ verdict = <<>>
    /\ score_item = NoItem
    /\ score = <<>>

Init == InitProgram /\ NoCalls

\* the scheduler driven by any sequence of calls
NextSched ==
    \/ \E id \in Items, priority \in Priorities : AddToQueue(id, priority)
    \/ \E id \in Items : RemoveFromQueue(id)
    \/ ClearQueue
    \/ GetReadyForPublication
    \/ Tick

SpecSched == Init /\ [][NextSched]_vars

\* the drain against the rate limiter: entries queued, publications recorded,
\* the limit polled
NextDrain ==
    \/ \E id \in Items, priority \in {MediumPriority, HighPriority} :
           AddToQueue(id, priority)
    \/ GetReadyForPublication
    \/ MarkAsPublished
    \/ CanPublishNow
    \/ Tick

SpecDrain == Init /\ [][NextDrain]_vars

\* ------------------------------------------------------------ Redis list
lpush(list, e) == <<e>> \o list

\* lrange(key, 0, limit - 1)
lrange(list, limit) == SubSeq(list, 1, IF limit < Len(list) THEN limit ELSE Len(list))

\* lrem(key, 1, value): drop the first element equal to value, from the head
lrem(list, value) ==
    LET hits == {k \in 1..Len(list) :
                    /\ list[k].id = value.id
                    /\ list[k].added_to_queue_at = value.added_to_queue_at}
    IN IF hits = {} THEN list
       ELSE RemoveAt(list, CHOOSE k \in hits : \A j \in hits : k <= j)

\* add_news_to_moderation_queue, line 62: every push that went through sets
\* the time to live of the whole list anew
RefreshTtl(did_push) ==
    /\ queue_expires_at' = IF did_push THEN redis_clock + QueueTtl ELSE queue_expires_at
    /\ pushed_at' = IF did_push THEN Append(pushed_at, redis_clock) ELSE pushed_at

\* add_news_to_moderation_queue, lines 29-65; redis_ok = FALSE is the
\* except branch (the client raised), which leaves the list alone
add_news_to_moderation_queue(list, id, t, seq, redis_ok) ==
    IF redis_ok
    THEN lpush(list, [id |-> id, added_to_queue_at |-> t, seq |-> seq])
    ELSE list

\* id of an entry whose payload is not the JSON of a ProcessedNewsItem:
\* json.loads or the constructor raises on it
Unparseable == 0

\* json.loads and ProcessedNewsItem(...) accept the entry, lines 80-109
Parses(e) == e.id # Unparseable

\* the scan of remove_news_from_moderation_queue calls json.loads on every
\* entry up to the one it removes: an unparseable entry on the way raises
ScanRaises(list, news_id) ==
    \E b \in 1..Len(list) :
        /\ ~Parses(list[b])
        /\ \A k \in 1..(b - 1) : list[k].id # news_id

\* variant: the scan keeps the last entry with the identity, not the first
remove_news_from_moderation_queue_Last(list, news_id) ==
    LET hits == {k \in 1..Len(list) : list[k].id = news_id}
    IN IF hits = {} \/ ScanRaises(list, news_id) THEN list
       ELSE RemoveAt(list, CHOOSE k \in hits : \A j \in hits : k >= j)

\* remove_news_from_moderation_queue, lines 127-142
remove_news_from_moderation_queue(list, news_id) ==
    LET hits == {k \in 1..Len(list) : list[k].id = news_id}
    IN IF hits = {} \/ ScanRaises(list, news_id) THEN list
       ELSE lrem(list, list[CHOOSE k \in hits : \A j \in hits : k <= j])

\* the loop over the entries with a parse failure that ends the poll
RECURSIVE ParseLoop_Abort(_)
ParseLoop_Abort(news_data_list) ==
    IF news_data_list = <<>> THEN <<>>
    ELSE IF Parses(Head(news_data_list))
         THEN <<Head(news_data_list)>> \o ParseLoop_Abort(Tail(news_data_list))
         ELSE <<>>

\* the loop of lines 78-115: an entry that raises is logged and skipped
RECURSIVE ParseLoop(_)
ParseLoop(news_data_list) ==
    IF news_data_list = <<>> THEN <<>>
    ELSE IF Parses(Head(news_data_list))
         THEN <<Head(news_data_list)>> \o ParseLoop(Tail(news_data_list))
         ELSE ParseLoop(Tail(news_data_list))

\* get_news_from_moderation_queue, redis_service.py lines 73-121; redis_ok =
\* FALSE is the outer except branch, which returns the empty list
get_news_from_moderation_queue(list, limit, redis_ok) ==
    IF redis_ok THEN ParseLoop(lrange(list, limit)) ELSE <<>>

\* ---------------------------------------------------------- persistence
\* get_unprocessed_news, database.py lines 192-195 (rows in primary-key order)
RECURSIVE IdsInOrder(_)
IdsInOrder(S) ==
    IF S = {} THEN <<>>
    ELSE LET m == CHOOSE x \in S : \A y \in S : x <= y
         IN <<m>> \o IdsInOrder(S \ {m})

Take(seq, n) == SubSeq(seq, 1, IF n < Len(seq) THEN n ELSE Len(seq))

get_unprocessed_news(d, limit) ==
    Take(IdsInOrder({i \in DOMAIN d : /\ ~d[i].processed
                                      /\ relevance_score[i] >= min_relevance_score}),
         limit)

\* get_news_for_publication, database.py lines 218-221: processed and not
\* published, importance_level descending, then relevance_score descending
RECURSIVE ByImportance(_, _)
ByImportance(d, S) ==
    IF S = {} THEN <<>>
    ELSE LET m == CHOOSE x \in S : \A y \in S :
                      \/ d[x].importance_level > d[y].importance_level
                      \/ /\ d[x].importance_level = d[y].importance_level
                         /\ relevance_score[x] >= relevance_score[y]
         IN <<m>> \o ByImportance(d, S \ {m})

get_news_for_publication(d, limit) ==
    Take(ByImportance(d, {i \in Items : d[i].processed /\ ~d[i].published}), limit)

\* update_processed_news, database.py lines 163-173
update_processed_news(d, id, importance) ==
    [d EXCEPT ![id].processed = TRUE, ![id].importance_level = importance]

\* DatabaseManager.mark_as_published, database.py line 185
mark_as_published(d, id) == [d EXCEPT ![id].published = TRUE]

\* ------------------------------------------------------ ContentProcessor
\* variant: the item is pushed whatever the enrichment returned
process_single_news_Always(d, list, id, success, importance, t, seq, redis_ok) ==
    [db |-> IF success THEN update_processed_news(d, id, importance) ELSE d,
     moderation_queue |-> add_news_to_moderation_queue(list, id, t, seq, redis_ok)]

\* process_single_news, content_processor.py lines 102-114
process_single_news(d, list, id, success, importance, t, seq, redis_ok) ==
    IF success
    THEN [db |-> update_processed_news(d, id, importance),
          moderation_queue |-> add_news_to_moderation_queue(list, id, t, seq, redis_ok)]
    ELSE [db |-> d, moderation_queue |-> list]

\* a batch loop that gives up at the first item that fails
process_news_batch_Abort(batch, success) ==
    IF success THEN Tail(batch) ELSE <<>>

\* process_news_batch, lines 69-82: what is left of the batch after one
\* item; a failed result or an exception is recorded and the loop goes on
process_news_batch(batch, success) == Tail(batch)

\* process_pending_news, lines 174-183: the batch is read
ProcessPendingNews ==
    /\ pending_news = <<>>
    /\ get_unprocessed_news(db, ProcessLimit) # <<>>
    /\ pending_news' = get_unprocessed_news(db, ProcessLimit)
    /\ UNCHANGED <<now, schedVars, op, ret, db, moderation_queue, published_news, ready_items,
                   channel, released, removed, moderated, pushSeq,
                   extVars>>

\* process_news_batch, lines 69-82: one item of the batch; the enrichment
\* succeeds with some importance level or fails, the push reaches Redis or not
ProcessSingleNews(success, importance, redis_ok) ==
    /\ pending_news # <<>>
    /\ LET id == Head(pending_news)
           r == process_single_news(db, moderation_queue, id, success, importance,
                                    now, pushSeq, redis_ok)
       IN /\ db' = r.db
          /\ moderation_queue' = r.moderation_queue
          /\ pushSeq' = IF r.moderation_queue # moderation_queue
                        THEN pushSeq + 1 ELSE pushSeq
          /\ pushed' = IF r.moderation_queue # moderation_queue
                       THEN pushed \cup {id} ELSE pushed
          /\ enriched' = IF success THEN [enriched EXCEPT ![id] = @ + 1] ELSE enriched
    /\ pending_news' = process_news_batch(pending_news, success)
    /\ RefreshTtl(moderation_queue' # moderation_queue)
    /\ UNCHANGED <<now, schedVars, op, ret, published_news, ready_items, channel, released,
                   removed, moderated, api_pending_news, botVars,
                   collVars, sysVars, redis_clock, pureVars>>

\* ------------------------------------------------------ ContentModerator
\* moderate_news_item, content_moderator.py lines 42-81: approved or not
moderate_news_item(id) == id \in Acceptable

\* ---------------------------------------------------------- F1NewsBotApp
\* _moderate_news_background, main.py lines 226-235: the loop over the items
RECURSIVE ModerateLoop(_, _, _, _, _)
ModerateLoop(processed_news, d, queue, t, seq) ==
    IF processed_news = <<>> THEN [publication_queue |-> queue, nextSeq |-> seq]
    ELSE LET news_item == Head(processed_news)
         IN IF moderate_news_item(news_item)
            THEN ModerateLoop(Tail(processed_news), d,
                     add_to_queue(queue, news_item, d[news_item].importance_level, t, seq),
                     t, seq + 1)
            ELSE ModerateLoop(Tail(processed_news), d, queue, t, seq)

\* _moderate_news_background, main.py lines 219-238 (POST /api/moderate-news)
ModerateNewsBackground ==
    LET processed_news == get_news_for_publication(db, ModerateLimit)
        r == ModerateLoop(processed_news, db, publication_queue, now, nextSeq)
        seen == {processed_news[k] : k \in 1..Len(processed_news)}
    IN /\ processed_news # <<>>
       /\ r.nextSeq - 1 <= MaxEnqueues
       /\ publication_queue' = r.publication_queue
       /\ nextSeq' = r.nextSeq
       /\ moderated' = [i \in Items |->
                           IF i \in seen
                           THEN (IF moderate_news_item(i) THEN "approved" ELSE "rejected")
                           ELSE moderated[i]]
       /\ op' = "add_to_queue"
       /\ ret' = TRUE
       /\ UNCHANGED <<now, post_history, marks, db, moderation_queue, published_news,
                      pending_news, ready_items, channel, released, removed, pushSeq,
                   extVars>>

\* variant: the completion bookkeeping empties the moderation queue
mark_news_as_published_All(list, news_id) == <<>>

\* mark_news_as_published, redis_service.py line 148: the moderation queue
\* after the removal (the push to the published list is in the actions)
mark_news_as_published(list, news_id) == remove_news_from_moderation_queue(list, news_id)

\* _schedule_publication_background, main.py line 244: the drain
SchedulePublication ==
    LET st == get_ready_for_publication(publication_queue, post_history, now)
    IN /\ ready_items = <<>>
       /\ st.ready_items # <<>>
       /\ publication_queue' = st.publication_queue
       /\ post_history' = st.post_history
       /\ ready_items' = st.ready_items
       /\ released' = [i \in Items |->
                          released[i] + Cardinality({k \in 1..Len(st.ready_items) :
                                                        st.ready_items[k] = i})]
       /\ op' = "get_ready_for_publication"
       /\ ret' = st.ready_items
       /\ UNCHANGED <<now, nextSeq, marks, db, moderation_queue, published_news,
                      pending_news, channel, removed, moderated, pushSeq,
                   extVars>>

\* what one call of publish_to_channel meets: "sent", the message is
\* delivered and the bookkeeping done; "send_failed", send_message raised;
\* "db_failed", the message is delivered and db_manager.mark_as_published
\* raised; "redis_failed", the message is delivered and the Redis client
\* raised inside mark_news_as_published, which returns False
Outcomes == {"sent", "send_failed", "db_failed", "redis_failed"}

\* variant: the published record is written although send_message raised
publish_to_channel_RecordsUnsent(st, news_item, outcome, t) ==
    IF outcome = "send_failed"
    THEN [st EXCEPT !.published_news = lpush(st.published_news, news_item),
                    !.success = FALSE]
    ELSE IF outcome = "db_failed"
    THEN [st EXCEPT !.channel = Append(st.channel, [id |-> news_item, at |-> t,
                                                    success |-> FALSE]),
                    !.success = FALSE]
    ELSE IF outcome = "redis_failed"
    THEN [st EXCEPT !.channel = Append(st.channel, [id |-> news_item, at |-> t,
                                                    success |-> TRUE]),
                    !.db = mark_as_published(st.db, news_item),
                    !.success = TRUE]
    ELSE [st EXCEPT !.channel = Append(st.channel, [id |-> news_item, at |-> t,
                                                    success |-> TRUE]),
                    !.db = mark_as_published(st.db, news_item),
                    !.moderation_queue =
                        mark_news_as_published(st.moderation_queue, news_item),
                    !.published_news = lpush(st.published_news, news_item),
                    !.success = TRUE]

\* publish_to_channel, telegram_bot/bot.py lines 1302-1330; st holds the
\* channel, the rows and the two Redis lists, success is the returned flag
publish_to_channel(st, news_item, outcome, t) ==
    IF outcome = "send_failed" THEN [st EXCEPT !.success = FALSE]
    ELSE IF outcome = "db_failed"
    THEN [st EXCEPT !.channel = Append(st.channel, [id |-> news_item, at |-> t,
                                                    success |-> FALSE]),
                    !.success = FALSE]
    ELSE IF outcome = "redis_failed"
    THEN [st EXCEPT !.channel = Append(st.channel, [id |-> news_item, at |-> t,
                                                    success |-> TRUE]),
                    !.db = mark_as_published(st.db, news_item),
                    !.success = TRUE]
    ELSE [st EXCEPT !.channel = Append(st.channel, [id |-> news_item, at |-> t,
                                                    success |-> TRUE]),
                    !.db = mark_as_published(st.db, news_item),
                    !.moderation_queue =
                        mark_news_as_published(st.moderation_queue, news_item),
                    !.published_news = lpush(st.published_news, news_item),
                    !.success = TRUE]

\* the state publish_to_channel works on
PublishState ==
    [channel |-> channel, db |-> db, moderation_queue |-> moderation_queue,
     published_news |-> published_news, success |-> FALSE]

\* _schedule_publication_background, main.py lines 246-258: one item of
\* ready_items is handed to publish_to_channel and, on success, marked
\* published in the database and in the scheduler
PublishReadyItem(outcome) ==
    /\ ready_items # <<>>
    /\ LET news_item == Head(ready_items)
           result == publish_to_channel(PublishState, news_item, outcome, now)
       IN /\ channel' = result.channel
          /\ db' = IF result.success THEN mark_as_published(result.db, news_item)
                   ELSE result.db
          /\ moderation_queue' = result.moderation_queue
          /\ published_news' = result.published_news
          /\ post_history' = IF result.success
                             THEN Append(post_history, now) ELSE post_history
          /\ marks' = IF result.success THEN Append(marks, now) ELSE marks
    /\ ready_items' = Tail(ready_items)
    /\ op' = "mark_as_published"
    /\ ret' = TRUE
    /\ UNCHANGED <<now, publication_queue, nextSeq, pending_news, released, removed,
                   moderated, pushSeq, extVars>>

\* the ingestion process: processing, moderation, publication and the clock
NextIngest ==
    \/ ProcessPendingNews
    \/ \E success \in BOOLEAN, importance \in Importances, redis_ok \in BOOLEAN :
           ProcessSingleNews(success, importance, redis_ok)
    \/ ModerateNewsBackground
    \/ SchedulePublication
    \/ \E outcome \in Outcomes : PublishReadyItem(outcome)
    \/ Tick

SpecIngest == Init /\ [][NextIngest]_vars

\* the ingestion process with queued items cancelled through remove_from_queue
NextCancel ==
    \/ NextIngest
    \/ \E id \in Items : RemoveFromQueue(id)

SpecCancel == Init /\ [][NextCancel]_vars

\* the processing loop alone: batches whose items succeed or fail
NextBatch ==
    \/ ProcessPendingNews
    \/ \E success \in BOOLEAN, importance \in Importances, redis_ok \in BOOLEAN :
           ProcessSingleNews(success, importance, redis_ok)
    \/ Tick

SpecBatch == Init /\ [][NextBatch]_vars

\* the importance_level of the JSON the language model answers with:
\* process_news_item takes processed_data.get('importance_level', 1) as it
\* is (ollama_client.py line 73; the field is a plain int, models.py line
\* 44): the levels 1 to 5, one below and one above
ParsedImportances == 0..6

\* the processing loop with whatever level the language model answers
NextEnrich ==
    \/ ProcessPendingNews
    \/ \E success \in BOOLEAN, importance \in ParsedImportances, redis_ok \in BOOLEAN :
           ProcessSingleNews(success, importance, redis_ok)
    \/ Tick

SpecEnrich == Init /\ [][NextEnrich]_vars

\* what the enrichment of a row can return, attempt after attempt: the
\* last row of the table is enriched whenever it is tried, the three rows
\* before it now and then, the other rows never (process_news_item returns
\* success = False for them every time)
EnrichmentResults(id) ==
    IF id = ProcessLimit + 1 THEN {TRUE}
    ELSE IF id > ProcessLimit - 3 THEN BOOLEAN
    ELSE {FALSE}

\* the collectors have saved the rows of TableRows
InitTable == InitFrom(Unprocessed(TableRows), <<>>, <<>>) /\ NoCalls

\* the processing loop on that table
NextTable ==
    \/ ProcessPendingNews
    \/ \E success \in BOOLEAN :
           /\ pending_news # <<>>
           /\ success \in EnrichmentResults(Head(pending_news))
           /\ ProcessSingleNews(success, HighPriority, TRUE)

\* the processing loop runs every 5 minutes and works through its batch
SpecTable ==
    /\ InitTable
    /\ [][NextTable]_vars
    /\ WF_vars(ProcessPendingNews)
    /\ WF_vars(\E success \in BOOLEAN :
                   /\ pending_news # <<>>
                   /\ success \in EnrichmentResults(Head(pending_news))
                   /\ ProcessSingleNews(success, HighPriority, TRUE))

\* ------------------------------------------- second processing task
\* process_pending_news started by POST /api/process-news (main.py lines
\* 85-93) while the processing loop runs: the batch is read
ApiProcessPendingNews ==
    /\ api_pending_news = <<>>
    /\ get_unprocessed_news(db, ProcessLimit) # <<>>
    /\ api_pending_news' = get_unprocessed_news(db, ProcessLimit)
    /\ UNCHANGED <<now, schedVars, op, ret, ingestVars, pushed, enriched, botVars,
                   collVars, sysVars, ttlVars, pureVars>>

\* process_news_batch of that task: one item of its batch
ApiProcessSingleNews(success, importance, redis_ok) ==
    /\ api_pending_news # <<>>
    /\ LET id == Head(api_pending_news)
           r == process_single_news(db, moderation_queue, id, success, importance,
                                    now, pushSeq, redis_ok)
       IN /\ db' = r.db
          /\ moderation_queue' = r.moderation_queue
          /\ pushSeq' = IF r.moderation_queue # moderation_queue
                        THEN pushSeq + 1 ELSE pushSeq
          /\ pushed' = IF r.moderation_queue # moderation_queue
                       THEN pushed \cup {id} ELSE pushed
          /\ enriched' = IF success THEN [enriched EXCEPT ![id] = @ + 1] ELSE enriched
    /\ api_pending_news' = process_news_batch(api_pending_news, success)
    /\ RefreshTtl(moderation_queue' # moderation_queue)
    /\ UNCHANGED <<now, schedVars, op, ret, published_news, pending_news, ready_items,
                   channel, released, removed, moderated, botVars,
                   collVars, sysVars, redis_clock, pureVars>>

\* ------------------------------------------------- F1NewsBot (publisher)
\* limit of the poll in _redis_sync_loop
SyncLimit == 5
\* limit of the poll in _sync_with_redis
RefreshLimit == 50

\* is item id in the pending list
InPending(pending, id) == \E k \in 1..Len(pending) : pending[k] = id

\* the pending list without the entries of item id (list comprehension of
\* _handle_publish and _handle_reject)
WithoutItem(pending, id) == SelectSeq(pending, LAMBDA x : x # id)

\* _redis_sync_loop, lines 1340-1343: the loop over the polled entries
RECURSIVE SyncLoopMerge(_, _)
SyncLoopMerge(redis_news, pending) ==
    IF redis_news = <<>> THEN pending
    ELSE LET news_item == Head(redis_news)
         IN IF ~InPending(pending, news_item.id)
            THEN SyncLoopMerge(Tail(redis_news), <<news_item.id>> \o pending)
            ELSE SyncLoopMerge(Tail(redis_news), pending)

\* _sync_with_redis, lines 1465-1475: current_ids is taken once, before the loop
RECURSIVE NewItems(_, _)
NewItems(redis_news, current_ids) ==
    IF redis_news = <<>> THEN <<>>
    ELSE LET news_item == Head(redis_news)
         IN IF news_item.id \notin current_ids
            THEN <<news_item.id>> \o NewItems(Tail(redis_news), current_ids)
            ELSE NewItems(Tail(redis_news), current_ids)

_sync_with_redis(list, pending, redis_ok) ==
    LET redis_news == get_news_from_moderation_queue(list, RefreshLimit, redis_ok)
        current_ids == {pending[k] : k \in 1..Len(pending)}
    IN NewItems(redis_news, current_ids) \o pending

\* one round of _redis_sync_loop, lines 1339-1343
RedisSyncLoop(redis_ok) ==
    /\ pending_publications' =
           SyncLoopMerge(get_news_from_moderation_queue(moderation_queue, SyncLimit,
                                                        redis_ok),
                         pending_publications)
    /\ UNCHANGED <<now, schedVars, op, ret, ingestVars, pushed, enriched,
                   api_pending_news, rejected,
                   collVars, sysVars, ttlVars, pureVars>>

\* _handle_queue_refresh, lines 1586-1593: the admin refreshes the queue
HandleQueueRefresh(redis_ok) ==
    /\ pending_publications' =
           _sync_with_redis(moderation_queue, pending_publications, redis_ok)
    /\ UNCHANGED <<now, schedVars, op, ret, ingestVars, pushed, enriched,
                   api_pending_news, rejected,
                   collVars, sysVars, ttlVars, pureVars>>

\* _handle_publish, lines 880-907: the admin publishes a pending item
HandlePublish(item_id, outcome) ==
    /\ InPending(pending_publications, item_id)
    /\ Len(channel) < MaxSends
    /\ LET result == publish_to_channel(PublishState, item_id, outcome, now)
       IN /\ channel' = result.channel
          /\ db' = result.db
          /\ moderation_queue' = result.moderation_queue
          /\ published_news' = result.published_news
          /\ pending_publications' =
                 IF result.success THEN WithoutItem(pending_publications, item_id)
                 ELSE pending_publications
    /\ UNCHANGED <<now, schedVars, op, ret, pending_news, ready_items, released,
                   removed, moderated, pushSeq, pushed, enriched, api_pending_news,
                   rejected,
                   collVars, sysVars, ttlVars, pureVars>>

\* _handle_reject, lines 909-915: the admin rejects a pending item
HandleReject(item_id) ==
    /\ InPending(pending_publications, item_id)
    /\ pending_publications' = WithoutItem(pending_publications, item_id)
    /\ rejected' = rejected \cup {item_id}
    /\ UNCHANGED <<now, schedVars, op, ret, ingestVars, pushed, enriched,
                   api_pending_news,
                   collVars, sysVars, ttlVars, pureVars>>

\* the publisher process: the sync loop and the admin's buttons
NextBot ==
    \/ \E redis_ok \in BOOLEAN : RedisSyncLoop(redis_ok)
    \/ \E redis_ok \in BOOLEAN : HandleQueueRefresh(redis_ok)
    \/ \E id \in Items, outcome \in Outcomes : HandlePublish(id, outcome)
    \/ \E id \in Items : HandleReject(id)

\* the processing loop and the task of POST /api/process-news, which enrich
\* with one importance level
NextProcessing ==
    \/ ProcessPendingNews
    \/ \E success \in BOOLEAN, redis_ok \in BOOLEAN :
           ProcessSingleNews(success, HighPriority, redis_ok)
    \/ ApiProcessPendingNews
    \/ \E success \in BOOLEAN, redis_ok \in BOOLEAN :
           ApiProcessSingleNews(success, HighPriority, redis_ok)

\* the publisher process next to the two processing tasks that feed the
\* Redis list
NextPublisher ==
    \/ NextProcessing
    \/ NextBot

SpecPublisher == Init /\ [][NextPublisher]_vars

\* the items of one batch of the processing loop that is longer than a poll
\* of the sync loop
BacklogItems == 1..(SyncLimit + 1)

\* the moderation queue after the processing loop has enriched and pushed
\* these items, item 1 first, while the sync loop slept: head first
Backlog ==
    [k \in 1..(SyncLimit + 1) |->
        [id |-> SyncLimit + 2 - k, added_to_queue_at |-> 0, seq |-> SyncLimit + 2 - k]]

\* the sync loop of the publisher process wakes up with that list
InitSync ==
    /\ InitFrom([i \in BacklogItems |->
                    [processed |-> TRUE, published |-> FALSE,
                     importance_level |-> HighPriority]],
                Backlog, <<>>)
    /\ NoCalls

\* the publisher process: the sync loop polls, the admin publishes and
\* rejects
NextSync ==
    \/ \E redis_ok \in BOOLEAN : RedisSyncLoop(redis_ok)
    \/ \E id \in BacklogItems, outcome \in {"sent", "send_failed"} :
           HandlePublish(id, outcome)
    \/ \E id \in Items : HandleReject(id)

\* the sync loop polls again and again (every 30 seconds) and Redis
\* answers; when the admin acts is up to the admin
SpecSync == InitSync /\ [][NextSync]_vars /\ WF_vars(RedisSyncLoop(TRUE))

\* the ingestion process's publication path
NextPublication ==
    \/ ModerateNewsBackground
    \/ SchedulePublication
    \/ \E outcome \in Outcomes : PublishReadyItem(outcome)

\* both processes on the Redis list: the ingestion process enriches, pushes
\* and publishes on its own, the publisher polls, publishes and rejects
NextCoupling ==
    \/ ProcessPendingNews
    \/ \E success \in BOOLEAN : ProcessSingleNews(success, HighPriority, TRUE)
    \/ ModerateNewsBackground
    \/ SchedulePublication
    \/ \E outcome \in {"sent", "send_failed"} : PublishReadyItem(outcome)
    \/ RedisSyncLoop(TRUE)
    \/ \E id \in Items, outcome \in {"sent", "send_failed"} : HandlePublish(id, outcome)
    \/ \E id \in Items : HandleReject(id)

SpecCoupling == Init /\ [][NextCoupling]_vars

\* --------------------------------------------------------- NewsCollector
\* the lists collect_news can return: distinct items, up to MaxBatch from
\* the first collector and one less from the others
Batches(c) ==
    {batch \in UNION {[1..n -> FetchedItems] :
                         n \in 0..(IF c = Collectors[1] THEN MaxBatch ELSE MaxBatch - 1)} :
        \A i, j \in 1..Len(batch) : i # j => batch[i] # batch[j]}

\* check_duplicate, database.py lines 247-251
check_duplicate(rows, url) == \E k \in 1..Len(rows) : rows[k].url = url

\* save_news_item, database.py lines 121-141; the column url is unique
\* (line 33), the commit of a second row with the url raises
save_news_item(rows, item) ==
    IF \E k \in 1..Len(rows) : rows[k].url = item.url THEN rows
    ELSE Append(rows, item)

\* variant: the save loop gives up the batch at an item whose url exists
_collect_from_source_Abort(rows, items) ==
    LET item == Head(items)
    IN IF ~check_duplicate(rows, item.url)
       THEN [store |-> save_news_item(rows, item), unsaved |-> Tail(items)]
       ELSE [store |-> rows, unsaved |-> <<>>]

\* _collect_from_source, news_collector.py lines 69-77: one turn of the
\* save loop
_collect_from_source(rows, items) ==
    LET item == Head(items)
    IN IF ~check_duplicate(rows, item.url)
       THEN [store |-> save_news_item(rows, item), unsaved |-> Tail(items)]
       ELSE [store |-> rows, unsaved |-> Tail(items)]

\* _calculate_similarity, lines 112-123, as the fraction num/den
_calculate_similarity(words1, words2) ==
    IF words1 = {} \/ words2 = {} THEN [num |-> 0, den |-> 1]
    ELSE [num |-> Cardinality(words1 \cap words2),
          den |-> Cardinality(words1 \cup words2)]

\* line 101: similarity > 0.8
TooSimilar(words1, words2) ==
    LET f == _calculate_similarity(words1, words2)
    IN 10 * f.num > 8 * f.den

\* a loop that compares the titles only
RECURSIVE RemoveDuplicatesLoop_TitlesOnly(_, _, _, _)
RemoveDuplicatesLoop_TitlesOnly(items, unique_items, seen_urls, seen_titles) ==
    IF items = <<>> THEN unique_items
    ELSE LET item == Head(items)
         IN IF \E seen_title \in seen_titles : TooSimilar(item.title, seen_title)
            THEN RemoveDuplicatesLoop_TitlesOnly(Tail(items), unique_items, seen_urls,
                                                 seen_titles)
            ELSE RemoveDuplicatesLoop_TitlesOnly(Tail(items), Append(unique_items, item),
                                                 seen_urls \cup {item.url},
                                                 seen_titles \cup {item.title})

\* _remove_duplicates, lines 92-108: the loop
RECURSIVE RemoveDuplicatesLoop(_, _, _, _)
RemoveDuplicatesLoop(items, unique_items, seen_urls, seen_titles) ==
    IF items = <<>> THEN unique_items
    ELSE LET item == Head(items)
         IN IF item.url \in seen_urls
            THEN RemoveDuplicatesLoop(Tail(items), unique_items, seen_urls, seen_titles)
            ELSE IF \E seen_title \in seen_titles : TooSimilar(item.title, seen_title)
            THEN RemoveDuplicatesLoop(Tail(items), unique_items, seen_urls, seen_titles)
            ELSE RemoveDuplicatesLoop(Tail(items), Append(unique_items, item),
                                      seen_urls \cup {item.url},
                                      seen_titles \cup {item.title})

_remove_duplicates(items) == RemoveDuplicatesLoop(items, <<>>, {}, {})

\* collect_all_news, lines 48-53: the results in the order of the collectors
RECURSIVE Extend(_, _)
Extend(results, k) ==
    IF k > Len(Collectors) THEN <<>>
    ELSE results[Collectors[k]] \o Extend(results, k + 1)

\* collect_all_news, lines 39-45, and _collect_from_source, line 65: a
\* round starts, collect_news of every collector returns its list
CollectNews(batches) ==
    /\ \A c \in CollectorNames : source_state[c] = "idle"
    /\ source_state' = [c \in CollectorNames |->
                            IF batches[c] = <<>> THEN "returned" ELSE "saving"]
    /\ news_items' = batches
    /\ unsaved' = batches
    /\ saved_now' = {}
    /\ all_news' = <<>>
    /\ unique_news' = <<>>
    /\ UNCHANGED <<now, schedVars, op, ret, ingestVars, pushed, enriched,
                   api_pending_news, botVars, store, sysVars, ttlVars, pureVars>>

\* _collect_from_source, lines 69-80: the next item of one collector's list
SaveNewsItem(c) ==
    /\ source_state[c] = "saving"
    /\ LET r == _collect_from_source(store, unsaved[c])
       IN /\ store' = r.store
          /\ unsaved' = [unsaved EXCEPT ![c] = r.unsaved]
          /\ saved_now' = IF r.store # store
                          THEN saved_now \cup {[source |-> c, item |-> Head(unsaved[c])]}
                          ELSE saved_now
          /\ source_state' = [source_state EXCEPT ![c] =
                                  IF r.unsaved = <<>> THEN "returned" ELSE "saving"]
    /\ UNCHANGED <<now, schedVars, op, ret, ingestVars, pushed, enriched,
                   api_pending_news, botVars, news_items, all_news, unique_news,
                   sysVars, ttlVars, pureVars>>

\* collect_all_news, lines 45-60: every collector has returned
CollectAllNews ==
    /\ \A c \in CollectorNames : source_state[c] = "returned"
    /\ all_news' = Extend(news_items, 1)
    /\ unique_news' = _remove_duplicates(Extend(news_items, 1))
    /\ source_state' = [c \in CollectorNames |-> "idle"]
    /\ news_items' = [c \in CollectorNames |-> <<>>]
    /\ UNCHANGED <<now, schedVars, op, ret, ingestVars, pushed, enriched,
                   api_pending_news, botVars, unsaved, store, saved_now, sysVars, ttlVars, pureVars>>

\* the collection loop: the collectors save side by side
NextCollect ==
    \/ \E rss \in Batches("rss"), telegram \in Batches("telegram"),
          reddit \in Batches("reddit") :
           CollectNews([c \in CollectorNames |->
                           IF c = "rss" THEN rss
                           ELSE IF c = "telegram" THEN telegram ELSE reddit])
    \/ \E c \in CollectorNames : SaveNewsItem(c)
    \/ CollectAllNews

SpecCollect == Init /\ [][NextCollect]_vars

\* items of a merged list: FetchedItems, two items that share a url with
\* them under another title, and an item without a title
DedupInputs ==
    UNION {[1..n -> FetchedItems \cup {[url |-> 2, title |-> {7, 8}],
                                       [url |-> 1, title |-> {7, 8, 9}],
                                       [url |-> 3, title |-> {}]}] :
              n \in 1..(MaxBatch + 1)}

\* collect_all_news at line 57: the results of the collectors are merged
InitDedup ==
    /\ \E merged \in DedupInputs : InitFrom(Unprocessed(Items), <<>>, merged)
    /\ NoCalls

\* collect_all_news, line 57: _remove_duplicates returns
RemoveDuplicates ==
    /\ all_news # <<>>
    /\ unique_news = <<>>
    /\ unique_news' = _remove_duplicates(all_news)
    /\ UNCHANGED <<now, schedVars, op, ret, ingestVars, pushed, enriched,
                   api_pending_news, botVars, source_state, news_items, unsaved, store,
                   saved_now, all_news, sysVars, ttlVars, pureVars>>

SpecDedup == InitDedup /\ [][RemoveDuplicates]_vars


\* ------------------------------------------------- RedisService, driven
\* limits of get_news_from_moderation_queue: below, at and above the number
\* of entries the list can hold (the sync loop passes 5)
Limits == {1, 2, 5}

AddNewsToModerationQueue(id, redis_ok) ==
    /\ pushSeq <= MaxPushes
    /\ moderation_queue' =
           add_news_to_moderation_queue(moderation_queue, id, now, pushSeq, redis_ok)
    /\ pushSeq' = IF redis_ok THEN pushSeq + 1 ELSE pushSeq
    /\ pushed' = IF redis_ok THEN pushed \cup {id} ELSE pushed
    /\ RefreshTtl(redis_ok)
    /\ op' = "add_news_to_moderation_queue"
    /\ ret' = redis_ok
    /\ UNCHANGED <<now, schedVars, db, published_news, pending_news, ready_items,
                   channel, released, removed, moderated, enriched, api_pending_news,
                   botVars,
                   collVars, sysVars, redis_clock, pureVars>>

GetNewsFromModerationQueue(limit, redis_ok) ==
    /\ op' = "get_news_from_moderation_queue"
    /\ ret' = [limit |-> limit, ok |-> redis_ok,
               news_items |-> get_news_from_moderation_queue(moderation_queue, limit, redis_ok)]
    /\ UNCHANGED <<now, schedVars, ingestVars,
                   extVars>>

RemoveNewsFromModerationQueue(news_id) ==
    /\ moderation_queue' = remove_news_from_moderation_queue(moderation_queue, news_id)
    /\ op' = "remove_news_from_moderation_queue"
    /\ ret' = /\ \E k \in 1..Len(moderation_queue) : moderation_queue[k].id = news_id
              /\ ~ScanRaises(moderation_queue, news_id)
    /\ UNCHANGED <<now, schedVars, db, published_news, pending_news, ready_items,
                   channel, released, removed, moderated, pushSeq,
                   extVars>>

\* mark_news_as_published, redis_service.py lines 144-161
MarkNewsAsPublished(news_id) ==
    /\ Len(published_news) < MaxPushes
    /\ moderation_queue' = mark_news_as_published(moderation_queue, news_id)
    /\ published_news' = lpush(published_news, news_id)
    /\ op' = "mark_news_as_published"
    /\ ret' = TRUE
    /\ UNCHANGED <<now, schedVars, db, pending_news, ready_items, channel, released,
                   removed, moderated, pushSeq,
                   extVars>>

\* the Redis list driven by any sequence of calls
NextRedis ==
    \/ \E id \in Items, redis_ok \in BOOLEAN : AddNewsToModerationQueue(id, redis_ok)
    \/ \E limit \in Limits, redis_ok \in BOOLEAN : GetNewsFromModerationQueue(limit, redis_ok)
    \/ \E id \in Items : RemoveNewsFromModerationQueue(id)
    \/ \E id \in Items : MarkNewsAsPublished(id)
    \/ Tick

SpecRedis == Init /\ [][NextRedis]_vars

\* another writer of the list (a script, redis-cli, an older release) left
\* an entry that get_news_from_moderation_queue cannot deserialize
PushMalformed ==
    /\ pushSeq <= MaxPushes
    /\ moderation_queue' =
           lpush(moderation_queue,
                 [id |-> Unparseable, added_to_queue_at |-> now, seq |-> pushSeq])
    /\ pushSeq' = pushSeq + 1
    /\ pushed_at' = Append(pushed_at, redis_clock)
    /\ op' = "foreign_push"
    /\ ret' = TRUE
    /\ UNCHANGED <<now, schedVars, db, published_news, pending_news, ready_items,
                   channel, released, removed, moderated, pushed, enriched,
                   api_pending_news, botVars, collVars, sysVars, redis_clock,
                   queue_expires_at, pureVars>>

\* polls of a list that holds entries of both kinds
NextPoll ==
    \/ \E id \in Items, redis_ok \in BOOLEAN : AddNewsToModerationQueue(id, redis_ok)
    \/ PushMalformed
    \/ \E limit \in Limits, redis_ok \in BOOLEAN : GetNewsFromModerationQueue(limit, redis_ok)
    \/ Tick

SpecPoll == Init /\ [][NextPoll]_vars

\* removals by identity from a list that holds entries of both kinds
NextScan ==
    \/ \E id \in Items, redis_ok \in BOOLEAN : AddNewsToModerationQueue(id, redis_ok)
    \/ PushMalformed
    \/ \E id \in Items : RemoveNewsFromModerationQueue(id)
    \/ Tick

SpecScan == Init /\ [][NextScan]_vars

\* the Redis server's clock advances by 12 hours; a key whose time to live
\* has run out is deleted with all its entries
RedisTick ==
    /\ redis_clock < MaxRedisTime
    /\ redis_clock' = redis_clock + 1
    /\ IF queue_expires_at # NoExpiry /\ redis_clock + 1 >= queue_expires_at
       THEN /\ moderation_queue' = <<>>
            /\ queue_expires_at' = NoExpiry
       ELSE UNCHANGED <<moderation_queue, queue_expires_at>>
    /\ UNCHANGED <<now, schedVars, op, ret, db, published_news, pending_news, ready_items,
                   channel, released, removed, moderated, pushSeq, pushed, enriched,
                   api_pending_news, botVars, collVars, sysVars, pushed_at, pureVars>>

\* a producer that keeps pushing while nothing is removed
NextTtl ==
    \/ \E id \in Items, redis_ok \in BOOLEAN : AddNewsToModerationQueue(id, redis_ok)
    \/ RedisTick

SpecTtl == Init /\ [][NextTtl]_vars

\* pushes and removals by identity on the moderation queue
NextRemoval ==
    \/ \E id \in Items, redis_ok \in BOOLEAN : AddNewsToModerationQueue(id, redis_ok)
    \/ \E id \in Items : RemoveNewsFromModerationQueue(id)
    \/ Tick

SpecRemoval == Init /\ [][NextRemoval]_vars

\* --------------------------------------- ContentModerator, rule by rule
\* Scores are in hundredths: 0.3 is 30. relevance_score is in tenths, so
\* relevance_score * 0.3 is 3 * relevance_score hundredths. A text is the
\* set of words and phrases that occur in it, lower-cased.

\* ContentModerator.__init__, lines 18-31
spam_keywords ==
    {"spam", "scam", "fake", "clickbait", "advertisement", "promo",
     "buy now", "discount", "sale", "free money", "win big"}

quality_keywords ==
    {"breaking", "exclusive", "official", "confirmed", "report",
     "analysis", "insight", "update", "news", "announcement"}

importance_boosters ==
    {"championship", "title", "pole position", "victory", "crash",
     "injury", "contract", "transfer", "retirement", "comeback"}

\* _is_spam, lines 99-102
promotional_patterns ==
    {"click here", "buy now", "limited time", "act now",
     "guaranteed", "100%", "free", "discount"}

\* config.py, lines 105-112: the English keywords, as keyword.lower()
F1_KEYWORDS ==
    {"formula 1", "f1", "formula one", "grand prix", "gp", "racing", "race",
     "hamilton", "verstappen", "leclerc", "russell", "sainz", "perez", "norris",
     "mercedes", "red bull", "ferrari", "mclaren", "alpine", "aston martin",
     "alphatauri", "alfa romeo", "williams", "haas", "championship", "season",
     "qualifying", "pole position", "podium", "victory", "win", "driver",
     "constructor", "team", "car", "engine", "tire", "strategy", "pit stop",
     "safety car", "red flag", "yellow flag", "overtake", "crash", "accident",
     "penalty", "points", "leader", "standings", "circuit", "track", "lap"}

\* str.lower() on the words titles are made of
lower(w) ==
    CASE w = "F1" -> "f1"
      [] w = "VERSTAPPEN" -> "verstappen"
      [] w = "WINS" -> "wins"
      [] w = "RACE" -> "race"
      [] OTHER -> w

\* keyword in phrase, for the words and phrases of the texts below: a
\* keyword occurs in itself, and "win" occurs in "wins"
IsSubstring(keyword, phrase) ==
    \/ keyword = phrase
    \/ <<keyword, phrase>> \in {<<"win", "wins">>}

\* f"{news_item.title} {news_item.content}".lower()
TextOf(news_item) ==
    {lower(news_item.title[k]) : k \in 1..Len(news_item.title)}
        \cup news_item.content_phrases

\* keyword in text
Occurs(keyword, text) == \E phrase \in text : IsSubstring(keyword, phrase)

\* sum(1 for keyword in keywords if keyword in text)
Matches(keywords, text) == Cardinality({keyword \in keywords : Occurs(keyword, text)})

\* a spam check without the promotional patterns
_is_spam_KeywordsOnly(news_item) ==
    \E keyword \in spam_keywords : Occurs(keyword, TextOf(news_item))

\* _is_spam, lines 89-108
_is_spam(news_item) ==
    \/ \E keyword \in spam_keywords : Occurs(keyword, TextOf(news_item))
    \/ \E pattern \in promotional_patterns : Occurs(pattern, TextOf(news_item))

Min(a, b) == IF a < b THEN a ELSE b

\* a score made of the relevance share alone
_calculate_quality_score_RelevanceOnly(news_item) ==
    Min(3 * news_item.relevance_score, 100)

\* _calculate_quality_score, lines 110-146
_calculate_quality_score(news_item) ==
    LET relevance == 3 * news_item.relevance_score
        length == IF news_item.content_length > 200 THEN 20
                  ELSE IF news_item.content_length > 100 THEN 10
                  ELSE 0
        quality == Min(10 * Matches(quality_keywords, TextOf(news_item)), 30)
        importance == 10 * news_item.importance_level
        sentiment == IF news_item.sentiment = "positive" THEN 10
                     ELSE IF news_item.sentiment = "negative" THEN 5
                     ELSE 0
        source == IF news_item.source = "official f1 media" THEN 20
                  ELSE IF news_item.source = "formula1.com" THEN 15
                  ELSE IF news_item.source = "motorsport.com" THEN 10
                  ELSE 0
    IN Min(relevance + length + quality + importance + sentiment + source, 100)

\* _is_relevant, lines 148-156
_is_relevant(news_item) == Matches(F1_KEYWORDS, TextOf(news_item)) >= 2

\* the heuristic on the number of words of the title, repeated or not
_is_duplicate_CountsWords(news_item) == Len(news_item.title) < 3

\* _is_duplicate, lines 158-168: set(news_item.title.lower().split())
_is_duplicate(news_item) ==
    LET title_words == {lower(news_item.title[k]) : k \in 1..Len(news_item.title)}
    IN Cardinality(title_words) < 3

\* _is_properly_formatted, lines 170-184
_is_properly_formatted(news_item) ==
    /\ ~(\A k \in 1..Len(news_item.title) :
             news_item.title[k] \in {"F1", "VERSTAPPEN", "WINS", "RACE"})
    /\ news_item.has_punctuation
    /\ ~news_item.starts_with_http

\* _has_important_keywords, lines 186-191
_has_important_keywords(news_item) ==
    Matches(importance_boosters, TextOf(news_item)) > 0

\* the steps of moderate_news_item in the order of their evaluation
Faults == {"none", "spam", "quality", "relevant", "duplicate", "length",
           "formatted", "important"}

\* lines 35-40
NewResult == [approved |-> TRUE, quality_score |-> 0, reasons |-> <<>>,
              suggestions |-> <<>>]

Reject(result, reason) ==
    [result EXCEPT !.approved = FALSE, !.reasons = Append(@, reason)]

Suggest(result, suggestion) ==
    [result EXCEPT !.suggestions = Append(@, suggestion)]

\* an except clause that only logs
OnException_OnlyLogs(result) == result

\* the except clause, lines 83-87
OnException(result) == Reject(result, "Moderation error")

\* moderate_news_item, lines 33-87; fault names the step that raises
moderation_result(news_item, fault) ==
    IF fault = "spam" THEN OnException(NewResult)
    ELSE IF _is_spam(news_item) THEN Reject(NewResult, "Spam content detected")
    ELSE IF fault = "quality" THEN OnException(NewResult)
    ELSE
    LET quality_score == _calculate_quality_score(news_item)
        r1 == [NewResult EXCEPT !.quality_score = quality_score]
        r2 == IF quality_score < 30 THEN Reject(r1, "Low quality content") ELSE r1
    IN IF fault = "relevant" THEN OnException(r2)
    ELSE
    LET r3 == IF ~_is_relevant(news_item) THEN Reject(r2, "Not relevant to F1") ELSE r2
    IN IF fault = "duplicate" THEN OnException(r3)
    ELSE
    LET r4 == IF _is_duplicate(news_item) THEN Reject(r3, "Duplicate content") ELSE r3
    IN IF fault = "length" THEN OnException(r4)
    ELSE
    LET r5 == IF news_item.content_length < 50
              THEN Reject(r4, "Content too short") ELSE r4
    IN IF fault = "formatted" THEN OnException(r5)
    ELSE
    LET r6 == IF ~_is_properly_formatted(news_item)
              THEN Suggest(r5, "Improve formatting") ELSE r5
    IN IF fault = "important" THEN OnException(r6)
    ELSE IF _has_important_keywords(news_item)
         THEN Suggest(r6, "High importance content - prioritize")
         ELSE r6

\* the items handed to the moderator
ModerationInputs ==
    [title : {<<"F1", "test">>, <<"test", "test", "test">>, <<"F1", "race", "test">>,
              <<"VERSTAPPEN", "WINS", "RACE">>},
     content_length : {29, 49, 50, 101, 300},
     content_phrases : {{}, {"breaking"}, {"buy now", "guaranteed"}, {"guaranteed"},
                        {"breaking", "verstappen"}, {"verstappen", "crash", "official"}},
     has_punctuation : BOOLEAN,
     starts_with_http : {FALSE},
     relevance_score : {0, 10},
     importance_level : {1, 4},
     sentiment : {"positive", "neutral"},
     source : {"autosport", "formula1.com"}]

\* a call of moderate_news_item with some item, in which some step may raise
InitModerate ==
    /\ InitProgram
    /\ mod_item \in ModerationInputs
    /\ mod_fault \in Faults
    /\ verdict = <<>>
    /\ score_item = NoItem
    /\ score = <<>>

\* moderate_news_item returns
ModerateNewsItem ==
    /\ verdict = <<>>
    /\ verdict' = <<moderation_result(mod_item, mod_fault)>>
    /\ UNCHANGED <<now, schedVars, op, ret, ingestVars, pushed, enriched,
                   api_pending_news, botVars, collVars, sysVars, ttlVars,
                   mod_item, mod_fault, score_item, score>>

SpecModerate == InitModerate /\ [][ModerateNewsItem]_vars

\* ------------------------------------------------------- BaseCollector
\* config.py, lines 127-148, and special_terms, base_collector.py lines
\* 63-65: the English entries
HIGH_PRIORITY_KEYWORDS ==
    {"formula 1", "f1", "grand prix", "racing", "championship", "verstappen",
     "hamilton", "ferrari", "mercedes", "red bull"}

TEAM_NAMES ==
    {"mercedes", "red bull", "ferrari", "mclaren", "alpine", "aston martin",
     "alphatauri", "alfa romeo", "williams", "haas"}

DRIVER_NAMES ==
    {"hamilton", "verstappen", "leclerc", "russell", "sainz", "perez", "norris",
     "alonso", "ocon", "gasly", "tsunoda", "bottas", "zhou", "albon", "latifi",
     "schumacher", "magnussen"}

special_terms ==
    {"grand prix", "qualifying", "pole position", "podium", "championship", "race"}

\* the score without line 73, which brings it into the range from 0 to 1
calculate_relevance_score_Unclamped(item) ==
    LET text == TextOf(item)
        title_text == TextOf([title |-> item.title, content_phrases |-> {}])
    IN Min(10 * Matches(F1_KEYWORDS, text), 60)
           + Min(30 * Matches(HIGH_PRIORITY_KEYWORDS, text), 80)
           + Min(20 * (Matches(TEAM_NAMES, text) + Matches(DRIVER_NAMES, text)), 60)
           + Min(15 * Matches(F1_KEYWORDS, title_text), 40)
           + Min(25 * Matches(HIGH_PRIORITY_KEYWORDS, title_text), 50)
           + Min(10 * Matches(special_terms, text), 30)

\* calculate_relevance_score, base_collector.py lines 26-79, in hundredths
calculate_relevance_score(item) ==
    LET text == TextOf(item)
        title_text == TextOf([title |-> item.title, content_phrases |-> {}])
        keyword_matches == Matches(F1_KEYWORDS, text)
        base_score == IF keyword_matches > 0 THEN Min(10 * keyword_matches, 60) ELSE 0
        priority_matches == Matches(HIGH_PRIORITY_KEYWORDS, text)
        priority_boost == IF priority_matches > 0
                          THEN Min(30 * priority_matches, 80) ELSE 0
        team_matches == Matches(TEAM_NAMES, text)
        driver_matches == Matches(DRIVER_NAMES, text)
        team_driver_boost == IF team_matches > 0 \/ driver_matches > 0
                             THEN Min(20 * (team_matches + driver_matches), 60) ELSE 0
        title_keyword_matches == Matches(F1_KEYWORDS, title_text)
        title_priority_matches == Matches(HIGH_PRIORITY_KEYWORDS, title_text)
        title_boost == (IF title_keyword_matches > 0
                        THEN Min(15 * title_keyword_matches, 40) ELSE 0)
                       + (IF title_priority_matches > 0
                          THEN Min(25 * title_priority_matches, 50) ELSE 0)
        special_boost == Min(10 * Matches(special_terms, text), 30)
        sum == base_score + priority_boost + team_driver_boost + title_boost
                   + special_boost
        clamped == IF Min(sum, 100) > 0 THEN Min(sum, 100) ELSE 0
    IN IF keyword_matches > 0 /\ clamped < 10 THEN 10 ELSE clamped

\* _is_f1_related, rss_collector.py lines 104-113
_is_f1_related(final_score) == final_score >= 10

\* the titles and bodies the collectors score
ScoreInputs ==
    [title : {<<"test">>, <<"F1", "test">>, <<"alonso", "test">>, <<"wins", "test">>,
              <<"VERSTAPPEN", "WINS", "RACE">>,
              <<"F1", "ferrari", "verstappen", "race">>},
     content_phrases : SUBSET {"f1", "ferrari", "alonso", "race", "crash", "verstappen"}]

\* a call of calculate_relevance_score with some title and body
InitScore ==
    /\ InitProgram
    /\ mod_item = NoItem
    /\ mod_fault = "none"
    /\ verdict = <<>>
    /\ score_item \in ScoreInputs
    /\ score = <<>>

\* calculate_relevance_score returns
CalculateRelevanceScore ==
    /\ score = <<>>
    /\ score' = <<calculate_relevance_score(score_item)>>
    /\ UNCHANGED <<now, schedVars, op, ret, ingestVars, pushed, enriched,
                   api_pending_news, botVars, collVars, sysVars, ttlVars,
                   mod_item, mod_fault, verdict, score_item>>

SpecScore == InitScore /\ [][CalculateRelevanceScore]_vars

\* -------------------------------------------------------- polling loops
\* how one pass through the body of a `while True` loop can end
IterationResults == {"ok", "raised"}

\* the process a loop task belongs to
ProcessOf(l) == IF l \in IngestionLoops THEN "ingestion" ELSE "publisher"

\* a loop without the except clause: the exception ends the task
loop_iteration_Propagates(result) ==
    IF result = "raised" THEN "terminated" ELSE "sleeping"

\* try/except inside `while True`: the body, then sleep(interval); on an
\* exception the handler logs and sleeps 60 seconds
loop_iteration(result) ==
    IF result = "raised" THEN "retry_sleep" ELSE "sleeping"

\* the argument of asyncio.sleep after an iteration: the loop's interval
\* (main.py lines 288, 298, 308, 318, with the default 30 of
\* settings.check_interval_minutes; bot.py line 1344), or the 60 seconds of
\* the except clauses (main.py lines 291, 301, 311, 321; bot.py line 1347)
sleep_seconds(l, result) ==
    IF result = "raised" THEN 60
    ELSE IF l = "collection" THEN 30 * 60
    ELSE IF l = "processing" THEN 300
    ELSE IF l = "publication" THEN 60
    ELSE IF l = "monitoring" THEN 300
    ELSE 30

\* one iteration of a loop, from the top of `while True` to its sleep
LoopIteration(l, result) ==
    /\ process[ProcessOf(l)] = "running"
    /\ loop_state[l] = "ready"
    /\ loop_state' = [loop_state EXCEPT ![l] = loop_iteration(result)]
    /\ loop_last' = [loop_last EXCEPT ![l] = result]
    /\ loop_sleep' = [loop_sleep EXCEPT ![l] = sleep_seconds(l, result)]
    /\ UNCHANGED <<appVars, process, redis_connection>>

\* asyncio.sleep of a loop returns
LoopWake(l) ==
    /\ process[ProcessOf(l)] = "running"
    /\ loop_state[l] \in {"sleeping", "retry_sleep"}
    /\ loop_state' = [loop_state EXCEPT ![l] = "ready"]
    /\ UNCHANGED <<appVars, loop_last, loop_sleep, process, redis_connection>>

\* F1NewsBotApp.shutdown: task.cancel() for the four loop tasks
shutdown(tasks) ==
    [l \in Loops |-> IF l \in IngestionLoops /\ tasks[l] # "terminated"
                     THEN "cancelled" ELSE tasks[l]]

\* the lifespan of the ingestion process ends: shutdown(), then exit
Shutdown ==
    /\ process["ingestion"] = "running"
    /\ loop_state' = shutdown(loop_state)
    /\ process' = [process EXCEPT !["ingestion"] = "exited"]
    /\ UNCHANGED <<appVars, loop_last, loop_sleep, redis_connection>>

\* F1NewsBot.stop: sets the stop event and stops the application
stop(tasks) == tasks

\* Ctrl+C in the publisher process: bot.stop(), then main() returns
StopPublisher ==
    /\ process["publisher"] = "running"
    /\ loop_state' = stop(loop_state)
    /\ process' = [process EXCEPT !["publisher"] = "exited"]
    /\ UNCHANGED <<appVars, loop_last, loop_sleep, redis_connection>>

NextLoops ==
    \E l \in Loops :
        \/ \E result \in IterationResults : LoopIteration(l, result)
        \/ LoopWake(l)

\* the loops while both processes run
SpecLoops == Init /\ [][NextLoops]_vars

\* the event loop runs every ready task and fires every timer
LoopFairness ==
    \A l \in Loops :
        /\ WF_vars(\E result \in IterationResults : LoopIteration(l, result))
        /\ WF_vars(LoopWake(l))

SpecLoopsFair == SpecLoops /\ LoopFairness

NextShutdown ==
    \/ NextLoops
    \/ Shutdown
    \/ StopPublisher

SpecShutdown == Init /\ [][NextShutdown]_vars

\* the ingestion process left to itself: start_background_tasks, main.py
\* lines 272-275, starts the collection, processing, publication and
\* monitoring loops. The processing loop runs process_pending_news;
\* _moderate_news_background is called by no loop (only by POST
\* /api/moderate-news, line 99), so the scheduler's queue stays empty and
\* an iteration of the publication loop drains nothing
NextIngestLoops ==
    \/ ProcessPendingNews
    \/ \E success \in BOOLEAN, importance \in Importances, redis_ok \in BOOLEAN :
           ProcessSingleNews(success, importance, redis_ok)
    \/ \E result \in IterationResults : LoopIteration("publication", result)
    \/ LoopWake("publication")
    \/ Tick

\* the event loop runs every loop task again and again
SpecIngestLoops ==
    /\ Init
    /\ [][NextIngestLoops]_vars
    /\ WF_vars(ProcessPendingNews)
    /\ WF_vars(\E success \in BOOLEAN, importance \in Importances, redis_ok \in BOOLEAN :
                   ProcessSingleNews(success, importance, redis_ok))
    /\ WF_vars(\E result \in IterationResults : LoopIteration("publication", result))
    /\ WF_vars(LoopWake("publication"))

\* ------------------------------------------------------------ properties
\* number of publish timestamps younger than one hour at time t
WindowCount(hist, t) == Cardinality({k \in 1..Len(hist) : t - hist[k] < Hour})

\* quota left at time t
RemainingQuota(hist, t) ==
    IF WindowCount(hist, t) >= MaxPostsPerHour THEN 0
    ELSE MaxPostsPerHour - WindowCount(hist, t)

\* C2: one call of get_ready_for_publication returns at most the remaining
\* quota, max_posts_per_hour minus the publish timestamps of the trailing
\* hour (the call appends no timestamp, so the window is the one it saw).
C2_DrainWithinQuota ==
    op = "get_ready_for_publication" =>
        Len(ret) <= RemainingQuota(post_history, now)

\* C3: when the window already holds max_posts_per_hour timestamps younger
\* than one hour, get_ready_for_publication returns the empty list and
\* leaves the publication queue as it was.
C3_ExhaustedQuotaDefers ==
    [][(/\ op' = "get_ready_for_publication"
        /\ WindowCount(post_history, now) >= MaxPostsPerHour)
       => (ret' = <<>> /\ publication_queue' = publication_queue)]_vars

\* a drain that found the quota exhausted while an entry was due
C3_Witness ==
    /\ op = "get_ready_for_publication"
    /\ WindowCount(post_history, now) >= MaxPostsPerHour
    /\ ret = <<>>
    /\ \E k \in 1..Len(publication_queue) : publication_queue[k].scheduled_for <= now

\* the oldest of the last max_posts_per_hour calls of mark_as_published
OldestOfLastN == marks[Len(marks) - MaxPostsPerHour + 1]

\* what the rate limiter has to answer at the current time
ExpectedCanPublish ==
    ~(Len(marks) >= MaxPostsPerHour /\ now - OldestOfLastN < Hour)

\* C4: after max_posts_per_hour calls of mark_as_published within one hour,
\* can_publish_now is false at every later time at which the oldest of them
\* is less than one hour old, and true once it is one hour old.
C4_RateLimiter ==
    /\ can_publish_now(post_history, now) = ExpectedCanPublish
    /\ (op = "can_publish_now" => ret = ExpectedCanPublish)

\* the limit was reached and can_publish_now answered true after the oldest
\* timestamp had aged out
C4_Witness ==
    /\ op = "can_publish_now"
    /\ ret = TRUE
    /\ Len(marks) >= MaxPostsPerHour
    /\ \E k \in 1..Len(marks) : now - marks[k] < Hour

\* C5: the publication queue is sorted by priority descending, then
\* scheduled_for ascending, and entries with equal keys are in the order of
\* their insertion.
C5_QueueSorted ==
    \A i, j \in 1..Len(publication_queue) :
        i < j =>
            LET a == publication_queue[i]
                b == publication_queue[j]
            IN \/ a.priority > b.priority
               \/ a.priority = b.priority /\ a.scheduled_for < b.scheduled_for
               \/ /\ a.priority = b.priority
                  /\ a.scheduled_for = b.scheduled_for
                  /\ a.seq < b.seq

\* an entry was inserted behind an entry with the same priority and time
C5_Witness ==
    /\ op = "add_to_queue"
    /\ Len(publication_queue) >= 2
    /\ publication_queue[1].priority = publication_queue[2].priority
    /\ publication_queue[1].scheduled_for = publication_queue[2].scheduled_for

\* C6: scheduled_for is the enqueue time for priority >= 5, the enqueue time
\* plus 30 minutes for 3 <= priority < 5 and plus 2 hours for priority < 3.
C6_ScheduleTiers ==
    \A k \in 1..Len(publication_queue) :
        LET e == publication_queue[k]
        IN /\ e.priority >= 5 => e.scheduled_for = e.added_at
           /\ (e.priority >= 3 /\ e.priority < 5) =>
                  e.scheduled_for = e.added_at + HalfHour
           /\ e.priority < 3 => e.scheduled_for = e.added_at + TwoHours

\* an immediate and a two-hour entry are queued together
C6_Witness ==
    /\ op = "add_to_queue"
    /\ \E k \in 1..Len(publication_queue) :
           /\ publication_queue[k].priority = 5
           /\ publication_queue[k].scheduled_for = publication_queue[k].added_at
    /\ \E k \in 1..Len(publication_queue) :
           /\ publication_queue[k].priority = 2
           /\ publication_queue[k].scheduled_for = publication_queue[k].added_at + TwoHours

\* C1: the publications the publication loop reports as successful never
\* exceed max_posts_per_hour within any window of one hour.
C1_HourlyLimit ==
    \A t \in 0..now :
        Cardinality({k \in 1..Len(channel) :
                        /\ channel[k].success
                        /\ channel[k].at >= t
                        /\ channel[k].at < t + Hour}) <= MaxPostsPerHour

\* number of entries of the publication queue that hold item i
Entries(queue, i) == Cardinality({k \in 1..Len(queue) : queue[k].id = i})

\* C7: an item follows queued -> ready -> released -> published only: once
\* released or published it is neither queued nor released again, and once
\* removed while queued it does not become published.
C7_ItemLifecycle ==
    [][\A i \in Items :
          /\ (released[i] >= 1 \/ db[i].published) =>
                 /\ Entries(publication_queue', i) <= Entries(publication_queue, i)
                 /\ released'[i] = released[i]
          /\ (i \in removed /\ ~db[i].published) => ~db'[i].published]_vars

\* C8: the publication queue holds at most one entry per item identity.
C8_NoDuplicateEntries ==
    \A i, j \in 1..Len(publication_queue) :
        i # j => publication_queue[i].id # publication_queue[j].id

RECURSIVE OldestFirst(_)
OldestFirst(S) ==
    IF S = {} THEN <<>>
    ELSE LET m == CHOOSE x \in S : \A y \in S : x.seq <= y.seq
         IN <<m>> \o OldestFirst(S \ {m})

\* C10: get_news_from_moderation_queue(limit) returns the limit oldest
\* entries still in the queue, oldest first.
C10_Fifo ==
    (op = "get_news_from_moderation_queue" /\ ret.ok) =>
        ret.news_items =
            Take(OldestFirst({moderation_queue[k] : k \in 1..Len(moderation_queue)}),
                 ret.limit)

\* C11: every item whose enrichment succeeded and that is marked processed
\* has been pushed to the moderation queue at least once, also when a push
\* attempt failed (no later step pushes a processed item).
C11_AtLeastOnceEnqueue ==
    \A i \in Items :
        (db[i].processed /\ \A k \in 1..Len(pending_news) : pending_news[k] # i)
            => i \in pushed

\* the list without its first entry of identity id
WithoutFirst(list, id) ==
    LET hits == {k \in 1..Len(list) : list[k].id = id}
    IN IF hits = {} THEN list
       ELSE RemoveAt(list, CHOOSE k \in hits : \A j \in hits : k <= j)

\* a call of remove_news_from_moderation_queue(id) removes exactly the first
\* entry of that identity and returns true, or finds none, returns false and
\* leaves the list alone
RemovesFirstOnly(id) ==
    RemoveNewsFromModerationQueue(id) =>
        /\ moderation_queue' = WithoutFirst(moderation_queue, id)
        /\ ret' = (Entries(moderation_queue, id) >= 1)
        /\ Entries(moderation_queue, id) = 0 => moderation_queue' = moderation_queue

EntriesKept(a, b) == \A k \in 1..Len(a) : \E j \in 1..Len(b) : b[j] = a[k]

\* a step of the publisher process pushes nothing
PublisherNeverPushes ==
    NextBot => (pushSeq' = pushSeq /\ EntriesKept(moderation_queue', moderation_queue))

C14_RejectRemovesEntry ==
    \A i \in rejected :
        /\ Entries(moderation_queue, i) = 0
        /\ ~InPending(pending_publications, i)

\* C15: the publisher's pending list never holds two entries with the same
\* item identity, whatever the polls, refreshes, publishes and rejections
\* and whatever the moderation queue holds.
C15_PendingNoDuplicates ==
    \A i, j \in 1..Len(pending_publications) :
        i # j => pending_publications[i] # pending_publications[j]

\* number of published records of item i
Records(i) == Cardinality({k \in 1..Len(published_news) : published_news[k] = i})

\* number of messages of item i delivered to the channel
Delivered(i) == Cardinality({k \in 1..Len(channel) : channel[k].id = i})

\* C16: a published record exists for an item only if a send of that item
\* to the channel succeeded before the record was appended (every record
\* has its own delivered message).
C16_RecordOnlyAfterSend == \A i \in Items : Records(i) <= Delivered(i)

\* an item has a published record while the other item, pushed but never
\* delivered to the channel, has none
C16_Witness ==
    \E i, j \in Items :
        /\ Records(i) >= 1
        /\ j \in pushed /\ Delivered(j) = 0 /\ Records(j) = 0

\* C17: whenever publish_to_channel reports success for an item, its
\* published flag is true, no entry of it is left in the moderation queue
\* and a published record has been appended.
C17_SuccessMeansBookkeeping ==
    [][(/\ Len(channel') = Len(channel) + 1
        /\ channel'[Len(channel')].success)
       => LET id == channel'[Len(channel')].id
          IN /\ db'[id].published
             /\ Entries(moderation_queue', id) = 0
             /\ published_news' = lpush(published_news, id)]_vars

\* number of messages of item i that publish_to_channel reported as sent
Published(log, i) == Cardinality({k \in 1..Len(log) : log[k].id = i /\ log[k].success})

\* C18: processed and published each turn true once and stay true: a
\* processed item is not enriched and marked processed again, a published
\* item is not published and marked published again, under the processing
\* loop running next to the task of POST /api/process-news.
C18_FlagsSetOnce ==
    [][\A i \in Items :
          /\ db[i].processed => (db'[i].processed /\ enriched'[i] = enriched[i])
          /\ db[i].published =>
                 (db'[i].published /\ Published(channel', i) = Published(channel, i))]_vars

\* C19: the table never holds two rows with the same url, and when a
\* collector has gone through its list every url of the list is in the
\* table: an item whose url exists is skipped, the items after it are saved.
C19_UniqueUrls ==
    /\ \A i, j \in 1..Len(store) : i # j => store[i].url # store[j].url
    /\ \A c \in CollectorNames :
           source_state[c] = "returned" =>
               \A k \in 1..Len(news_items[c]) : check_duplicate(store, news_items[c][k].url)

\* a collector's first item was skipped because another collector had saved
\* its url, and its second item was saved
C19_Witness ==
    \E c \in CollectorNames :
        /\ source_state[c] = "returned"
        /\ Len(news_items[c]) = 2
        /\ [source |-> c, item |-> news_items[c][1]] \notin saved_now
        /\ [source |-> c, item |-> news_items[c][2]] \in saved_now

\* the item has an earlier item with a too similar title in the merged list
NearDuplicateOfEarlier(item) ==
    \E k \in 1..Len(all_news) :
        /\ all_news[k] = item
        /\ \A j \in 1..(k - 1) : all_news[j] # item
        /\ \E j \in 1..(k - 1) : TooSimilar(all_news[j].title, item.title)

\* C20: an item whose title is more than 0.8 similar to an earlier item of
\* the same collection is not persisted as an unprocessed row; only the
\* items _remove_duplicates keeps are.
C20_NearDuplicatesNotPersisted ==
    (all_news # <<>> /\ \A c \in CollectorNames : source_state[c] = "idle")
        => \A saved \in saved_now : ~NearDuplicateOfEarlier(saved.item)

\* C21: every polling loop keeps iterating forever: whatever its iterations
\* raise, each loop is again and again at the top of its body and again and
\* again asleep after an iteration, and a loop whose iteration raised starts
\* another one, all of it independently of what the sibling loops do.
C21_LoopsIterateForever ==
    \A l \in Loops :
        /\ []<>(loop_state[l] = "ready")
        /\ []<>(loop_state[l] \in {"sleeping", "retry_sleep"})
        /\ (loop_state[l] = "retry_sleep") ~> (loop_state[l] = "ready")

\* a loop is ready for its next iteration after one that raised, while a
\* sibling loop sleeps after a raising iteration of its own
C21_Witness ==
    \E l, m \in Loops :
        /\ l # m
        /\ loop_state[l] = "ready"
        /\ loop_last[l] = "raised"
        /\ loop_state[m] = "retry_sleep"

\* C22: once a process has exited, each of its loop tasks was cancelled and
\* its connection to Redis was closed.
C22_ShutdownCancelsAndCloses ==
    \A l \in Loops :
        process[ProcessOf(l)] = "exited" =>
            /\ loop_state[l] \in {"cancelled", "terminated"}
            /\ redis_connection[ProcessOf(l)] = "closed"

\* the positions of the list a poll with this limit looks at
Polled(limit) ==
    1..(IF limit < Len(moderation_queue) THEN limit ELSE Len(moderation_queue))

\* C23: get_news_from_moderation_queue is a read-only, total poll: it leaves
\* every entry of the list in place, and it returns, in the order of the
\* list, exactly the entries within the limit that deserialize: an entry
\* that does not is skipped and does not keep any other entry from being
\* returned.
C23_PollReadOnlyAndTotal ==
    [][\A limit \in Limits, redis_ok \in BOOLEAN :
          GetNewsFromModerationQueue(limit, redis_ok) =>
              /\ moderation_queue' = moderation_queue
              /\ redis_ok =>
                  /\ \A k \in Polled(limit) :
                         Parses(moderation_queue[k]) <=>
                             \E j \in 1..Len(ret'.news_items) :
                                 ret'.news_items[j] = moderation_queue[k]
                  /\ Len(ret'.news_items) =
                         Cardinality({k \in Polled(limit) : Parses(moderation_queue[k])})
                  /\ \A i, j \in 1..Len(ret'.news_items) :
                         i < j => \E a, b \in Polled(limit) :
                                      /\ a < b
                                      /\ moderation_queue[a] = ret'.news_items[i]
                                      /\ moderation_queue[b] = ret'.news_items[j]]_vars

\* a poll met an entry that does not deserialize in front of one that does,
\* returned the latter and left both in the list
C23_Witness ==
    /\ op = "get_news_from_moderation_queue"
    /\ ret.ok
    /\ Len(moderation_queue) >= 2
    /\ ret.limit >= 2
    /\ ~Parses(moderation_queue[1])
    /\ Parses(moderation_queue[2])
    /\ \E j \in 1..Len(ret.news_items) : ret.news_items[j] = moderation_queue[2]

\* C24: with no removals, no entry is in the moderation queue more than 24
\* hours after its push, even while the producer keeps pushing.
C24_EntriesExpireAfterTtl ==
    \A k \in 1..Len(moderation_queue) :
        redis_clock - pushed_at[moderation_queue[k].seq] <= QueueTtl

\* C25: an enrichment that fails or raises is a failure of that item only:
\* the step leaves the item's row as it was (not marked processed), pushes
\* nothing to the moderation queue, and the batch goes on with exactly the
\* items that were behind the failed one.
C25_FailureIsPerItem ==
    [][\A importance \in Importances, redis_ok \in BOOLEAN :
          ProcessSingleNews(FALSE, importance, redis_ok) =>
              /\ db' = db
              /\ moderation_queue' = moderation_queue
              /\ pushed' = pushed
              /\ enriched' = enriched
              /\ pending_news' = Tail(pending_news)]_vars

\* a batch held both items; the first one failed and is neither marked
\* processed nor pushed, the second one was processed and pushed after it
C25_Witness ==
    /\ pending_news = <<>>
    /\ \E i, j \in Items :
           /\ get_unprocessed_news(db, ProcessLimit) = <<i>>
           /\ ~db[i].processed
           /\ i \notin pushed
           /\ enriched[i] = 0
           /\ db[j].processed
           /\ j \in pushed
           /\ i < j

\* the step that raises is reached: the spam check itself, or a later step
\* of an item the spam check let through
RuleRaised ==
    \/ mod_fault = "spam"
    \/ mod_fault # "none" /\ ~_is_spam(mod_item)

\* C26: moderate_news_item never propagates an exception: when the
\* evaluation of a rule raises, a verdict still comes back, it has
\* approved = false and its reasons include the moderation-error reason.
C26_ErrorBecomesReject ==
    (verdict # <<>> /\ RuleRaised) =>
        /\ ~verdict[1].approved
        /\ \E k \in 1..Len(verdict[1].reasons) :
               verdict[1].reasons[k] = "Moderation error"

\* the duplicate check raised for an item no rule had rejected, and the
\* verdict is a rejection for the moderation error alone
C26_Witness ==
    /\ verdict # <<>>
    /\ mod_fault = "duplicate"
    /\ ~_is_spam(mod_item)
    /\ verdict[1].reasons = <<"Moderation error">>
    /\ ~verdict[1].approved
    /\ verdict[1].quality_score >= 30

\* the reasons of the rejecting rules that fired, in the order of the rules
FiredReasons(low_quality, not_relevant, duplicate, too_short) ==
    (IF low_quality THEN <<"Low quality content">> ELSE <<>>)
        \o (IF not_relevant THEN <<"Not relevant to F1">> ELSE <<>>)
        \o (IF duplicate THEN <<"Duplicate content">> ELSE <<>>)
        \o (IF too_short THEN <<"Content too short">> ELSE <<>>)

\* the number of F1 keywords that occur in the title and the body
TopicalMatches == Matches(F1_KEYWORDS, TextOf(mod_item))

\* the different words of the title, lower-cased
DistinctTitleWords == {lower(mod_item.title[k]) : k \in 1..Len(mod_item.title)}

\* a verdict for an item that is not spam, with no rule raising
RulesEvaluated == verdict # <<>> /\ mod_fault = "none" /\ ~_is_spam(mod_item)

\* C27 as stated: for an item that is not spam the reasons are exactly the
\* rules that fired among low quality (score < 0.3), not relevant (fewer
\* than 2 topical keyword matches), duplicate (fewer than 3 words in the
\* title) and too short (body under 50 characters), in that order, and the
\* item is approved exactly when none fired.
C27_ReasonsAreFiredRules ==
    RulesEvaluated =>
        /\ verdict[1].reasons =
               FiredReasons(verdict[1].quality_score < 30,
                            TopicalMatches < 2,
                            Len(mod_item.title) < 3,
                            mod_item.content_length < 50)
        /\ verdict[1].approved <=> verdict[1].reasons = <<>>

\* C27 amended: the same, with the duplicate rule firing when the title has
\* fewer than 3 different words after lower-casing, so that a title of three
\* or more words with repetitions is rejected as a duplicate too.
C27_ReasonsAreFiredRulesDistinctWords ==
    RulesEvaluated =>
        /\ verdict[1].reasons =
               FiredReasons(verdict[1].quality_score < 30,
                            TopicalMatches < 2,
                            Cardinality(DistinctTitleWords) < 3,
                            mod_item.content_length < 50)
        /\ verdict[1].approved <=> verdict[1].reasons = <<>>

\* a title of three words, all the same, got the duplicate reason after the
\* reasons of two other rules and before the one of the length rule
C27_Witness ==
    /\ RulesEvaluated
    /\ Len(mod_item.title) = 3
    /\ Cardinality(DistinctTitleWords) = 1
    /\ verdict[1].reasons = <<"Low quality content", "Not relevant to F1",
                              "Duplicate content", "Content too short">>
    /\ ~verdict[1].approved

\* the text holds a spam keyword or a promotional pattern
SpamText ==
    \E keyword \in spam_keywords \cup promotional_patterns :
        Occurs(keyword, TextOf(mod_item))

\* C28: when the spam check fires the item is rejected at once: the verdict
\* has approved = false, the spam reason as its only reason, no suggestions
\* and the quality score still at its initial 0, whatever the other rules
\* would have said.
C28_SpamRejectedAtOnce ==
    (verdict # <<>> /\ mod_fault # "spam" /\ SpamText) =>
        verdict[1] = [approved |-> FALSE, quality_score |-> 0,
                      reasons |-> <<"Spam content detected">>,
                      suggestions |-> <<>>]

\* a spam item that the other rules would have let through with a high
\* score and a formatting suggestion was rejected for spam alone
C28_Witness ==
    /\ verdict # <<>>
    /\ mod_fault = "none"
    /\ SpamText
    /\ _calculate_quality_score(mod_item) >= 30
    /\ _is_relevant(mod_item)
    /\ ~_is_duplicate(mod_item)
    /\ mod_item.content_length >= 50
    /\ ~_is_properly_formatted(mod_item)
    /\ verdict[1].reasons = <<"Spam content detected">>
    /\ verdict[1].suggestions = <<>>
    /\ verdict[1].quality_score = 0

\* Scenario A: title "F1 test", a body of 300 characters with the quality
\* keyword "breaking", two topical keyword matches, importance 4, positive
\* sentiment, not spam
ScenarioA ==
    /\ verdict # <<>>
    /\ mod_fault = "none"
    /\ mod_item.title = <<"F1", "test">>
    /\ mod_item.content_length = 300
    /\ "breaking" \in mod_item.content_phrases
    /\ TopicalMatches = 2
    /\ mod_item.importance_level = 4
    /\ mod_item.sentiment = "positive"
    /\ ~SpamText

\* C29 as stated: the item of Scenario A is approved, with no reasons and a
\* quality score above 0.3.
C29_ScenarioAApproved ==
    ScenarioA =>
        /\ verdict[1].approved
        /\ verdict[1].reasons = <<>>
        /\ verdict[1].quality_score > 30

\* C29 amended: the item of Scenario A has a quality score above 0.3 and is
\* rejected: its title has two words, so the duplicate rule fires, and the
\* duplicate reason is the only reason of the verdict.
C29_ScenarioARejectedAsDuplicate ==
    ScenarioA =>
        /\ ~verdict[1].approved
        /\ verdict[1].reasons = <<"Duplicate content">>
        /\ verdict[1].quality_score > 30

\* the verdict for the item of Scenario A
C29_Witness ==
    /\ ScenarioA
    /\ verdict[1].reasons = <<"Duplicate content">>
    /\ verdict[1].quality_score >= 80

\* C30: for every title and body calculate_relevance_score returns a value
\* from 0 to 1, and when at least one general F1 keyword occurs in the title
\* or the body the value is at least 0.1, so that the item passes the
\* collectors' test score >= 0.1.
C30_ScoreInRange ==
    score # <<>> =>
        /\ 0 <= score[1] /\ score[1] <= 100
        /\ (\E keyword \in F1_KEYWORDS : Occurs(keyword, TextOf(score_item))) =>
               /\ score[1] >= 10
               /\ _is_f1_related(score[1])

\* one general keyword occurs in the body and nothing else adds to the
\* score, which is exactly 0.1
C30_Witness ==
    /\ score # <<>>
    /\ score_item.title = <<"test">>
    /\ score_item.content_phrases = {"crash"}
    /\ score[1] = 10

\* is a a subsequence of b
RECURSIVE IsSubsequence(_, _)
IsSubsequence(a, b) ==
    IF a = <<>> THEN TRUE
    ELSE IF b = <<>> THEN FALSE
    ELSE IF Head(a) = Head(b) THEN IsSubsequence(Tail(a), Tail(b))
    ELSE IsSubsequence(a, Tail(b))

\* the first item of the merged list with the url
FirstWithUrl(url) ==
    all_news[CHOOSE k \in 1..Len(all_news) :
                 /\ all_news[k].url = url
                 /\ \A j \in 1..(k - 1) : all_news[j].url # url]

\* the urls that two items of the merged list share
SharedUrls ==
    {all_news[i].url : i \in {k \in 1..Len(all_news) :
                                 \E j \in 1..Len(all_news) :
                                     j # k /\ all_news[j].url = all_news[k].url}}

\* the kept items with the url
KeptWithUrl(url) == {k \in 1..Len(unique_news) : unique_news[k].url = url}

\* the result is a subsequence of the merged list without two items of one
\* url and without two titles more than 0.8 similar
DuplicateFree ==
    /\ IsSubsequence(unique_news, all_news)
    /\ \A i, j \in 1..Len(unique_news) :
           i # j => /\ unique_news[i].url # unique_news[j].url
                    /\ ~TooSimilar(unique_news[i].title, unique_news[j].title)

\* C31 as stated: _remove_duplicates returns a subsequence of its input in
\* which no two items share a url and no two titles are more than 0.8
\* similar, and of the items with one url exactly one, the first, is kept.
C31_FirstOfEveryUrlKept ==
    unique_news # <<>> =>
        /\ DuplicateFree
        /\ \A url \in SharedUrls :
               /\ Cardinality(KeptWithUrl(url)) = 1
               /\ \A k \in KeptWithUrl(url) : unique_news[k] = FirstWithUrl(url)

\* C31, amended: _remove_duplicates returns a subsequence of its input in
\* which no two items share a url and no two titles are more than 0.8
\* similar; of the items with one url at most one is kept, and exactly one,
\* the first, whenever the title of the first is not more than 0.8 similar
\* to the title of a kept item with another url.
C31_FirstOfUrlKeptUnlessSimilar ==
    unique_news # <<>> =>
        /\ DuplicateFree
        /\ \A url \in SharedUrls :
               /\ Cardinality(KeptWithUrl(url)) <= 1
               /\ (\A k \in 1..Len(unique_news) :
                       unique_news[k].url # url =>
                           ~TooSimilar(FirstWithUrl(url).title, unique_news[k].title))
                      => /\ Cardinality(KeptWithUrl(url)) = 1
                         /\ \A k \in KeptWithUrl(url) :
                                unique_news[k] = FirstWithUrl(url)

\* two items with one url and different titles were merged: the first is
\* in the result, the second is not
C31_Witness ==
    \E i, j \in 1..Len(all_news) :
        /\ i < j
        /\ all_news[i].url = all_news[j].url
        /\ all_news[i] # all_news[j]
        /\ \E k \in 1..Len(unique_news) : unique_news[k] = all_news[i]
        /\ \A k \in 1..Len(unique_news) : unique_news[k] # all_news[j]

\* the entries of the queue whose add_to_queue call is one of kept, as they
\* are and in their order
EntriesOf(queue, kept) == SelectSeq(queue, LAMBDA e : e.seq \in kept)

\* C32: get_ready_for_publication and mark_as_published leave the entries
\* that stay queued alone: after a drain the queue is the old queue without
\* the returned entries, every other entry with its priority, added_at and
\* scheduled_for and in its place, and mark_as_published appends one
\* timestamp to post_history and changes nothing in the queue.
C32_QueuedEntriesUntouched ==
    [][/\ op' = "get_ready_for_publication" =>
              /\ publication_queue' =
                     EntriesOf(publication_queue,
                               {publication_queue'[k].seq :
                                    k \in 1..Len(publication_queue')})
              /\ Len(publication_queue) = Len(publication_queue') + Len(ret')
       /\ op' = "mark_as_published" =>
              /\ publication_queue' = publication_queue
              /\ post_history' = Append(post_history, now)]_vars

\* after a publication was recorded, a drain returned an entry and left
\* another one, not yet due, in the queue
C32_Witness ==
    /\ op = "get_ready_for_publication"
    /\ ret # <<>>
    /\ post_history # <<>>
    /\ \E k \in 1..Len(publication_queue) : publication_queue[k].scheduled_for > now

\* C33: the ingestion process moderates as one of its periodic loops: every
\* enriched, unpublished item is eventually moderated (and, if approved,
\* enqueued in the scheduler) with no request from outside.
C33_EnrichedEventuallyModerated ==
    \A i \in Items :
        (db[i].processed /\ ~db[i].published)
            ~> (moderated[i] # "none" \/ db[i].published)

\* C34: in every polling loop the sleep after a failed iteration is shorter
\* than the sleep after a successful iteration of the same loop (here: than
\* the sleep after the successful iteration right before it).
C34_RetrySleepShorter ==
    [][\A l \in Loops :
          (loop_last[l] = "ok" /\ loop_state[l] = "ready" /\ loop_last'[l] = "raised")
              => loop_sleep'[l] < loop_sleep[l]]_vars

\* C35: every enriched item held in the pipeline has an importance level
\* from 1 to 5.
C35_ImportanceInRange ==
    \A i \in Items : db[i].processed => db[i].importance_level \in 1..5

\* C36: publish_to_channel reports failure only when nothing happened: a
\* call that returned success = false delivered no message to the channel
\* (every delivered message belongs to a call that reported success).
C36_FailureDeliversNothing ==
    \A k \in 1..Len(channel) : channel[k].success

\* C37: no item is sent to the channel more than once, whether by the
\* publication loop of the ingestion process or by the admin's publish in
\* the publisher process, in any interleaving with the polls of the sync
\* loop and the removals from the moderation queue.
C37_SentAtMostOnce == \A i \in Items : Delivered(i) <= 1

\* C38: every entry pushed to the moderation queue and not removed from it
\* is eventually merged into the publisher's pending list by the sync loop,
\* however many entries were pushed between two polls.
C38_PushedEventuallyPending ==
    \A i \in BacklogItems :
        (Entries(moderation_queue, i) > 0)
            ~> (InPending(pending_publications, i) \/ Entries(moderation_queue, i) = 0)

\* C39: every persisted unprocessed item with relevance_score >=
\* min_relevance_score whose enrichment would succeed is eventually enriched
\* by the processing loop, also when other unprocessed items keep failing.
C39_EnrichableEventuallyEnriched ==
    \A i \in {r \in TableRows : /\ EnrichmentResults(r) = {TRUE}
                                /\ relevance_score[r] >= min_relevance_score} :
        (~db[i].processed) ~> db[i].processed

\* C40: remove_news_from_moderation_queue(id) removes an entry with the
\* identity whenever one is in the moderation queue and returns true, also
\* when another entry of the queue cannot be deserialized.
C40_MalformedEntryNeverBlocksRemoval ==
    [][\A id \in Items :
          (RemoveNewsFromModerationQueue(id) /\ Entries(moderation_queue, id) >= 1)
              => /\ Entries(moderation_queue', id) = Entries(moderation_queue, id) - 1
                 /\ ret' = TRUE]_vars

====
